---- MODULE Spec2Model ----
(***************************************************************************)
(* A model of the Movies API repository layer (internal/repository) and   *)
(* of the HTTP handlers that drive it (internal/http/movies.go).          *)
(*                                                                         *)
(* The database is two tables: movies and ratings.  A movies row carries   *)
(* the columns the repository reads and writes; created_at is the          *)
(* transaction time now() of the INSERT and id is gen_random_uuid().      *)
(* Text columns are sequences of one-character strings; an optional        *)
(* (nullable, pointer-typed) value is a record [some, v].                  *)
(*                                                                         *)
(* Instants are integers counting microseconds (the resolution of a        *)
(* TIMESTAMPTZ column); 0 stands for Go's zero time.Time.  A movie id is   *)
(* a natural number n >= 1 standing for the n-th UUID in UUID order; as a  *)
(* Go string, 0 stands for the empty string, which is not a UUID.          *)
(***************************************************************************)
EXTENDS Integers, Sequences, FiniteSets, TLC

VARIABLES
    movies,     \* the movies table: a set of rows
    ratings,    \* the ratings table: a set of rows
    clock,      \* the database clock, the value now() returns
    trav,       \* a client that follows next-cursors from a first List call
    listReq,    \* the filters of the latest List call
    listRes,    \* and what that call returned
    codecIn,    \* the latest argument given to the cursor codec
    codecOut,   \* and what the codec returned for it
    calls,      \* the HTTP requests and repository calls, in order of arrival
    hist        \* history kept for the properties: commits, tables, events

vars == <<movies, ratings, clock, trav, listReq, listRes, codecIn, codecOut, calls, hist>>

(***************************************************************************)
(* Bounds of the model.                                                    *)
(***************************************************************************)
MaxMovies == 3
MaxClock == 2
MaxCalls == 3

(***************************************************************************)
(* Optional values.                                                        *)
(***************************************************************************)
NoStr == [some |-> FALSE, v |-> <<>>]
NoInt == [some |-> FALSE, v |-> 0]
SomeOf(x) == [some |-> TRUE, v |-> x]

(***************************************************************************)
(* Text.  strings.TrimSpace removes leading and trailing white space.      *)
(***************************************************************************)
RECURSIVE TrimLeft(_)
TrimLeft(s) ==
    IF s # <<>> /\ Head(s) = " " THEN TrimLeft(Tail(s)) ELSE s

RECURSIVE TrimRight(_)
TrimRight(s) ==
    IF s # <<>> /\ s[Len(s)] = " " THEN TrimRight(SubSeq(s, 1, Len(s) - 1)) ELSE s

Untrimmed(s) == s

TrimSpace(s) == TrimRight(TrimLeft(s))

\* Case folding as ILIKE applies it to both the pattern and the text.
Lower(c) ==
    CASE c = "A" -> "a"
      [] c = "B" -> "b"
      [] c = "C" -> "c"
      [] OTHER -> c

(***************************************************************************)
(* PostgreSQL's  text ILIKE pattern : the whole of text must match the     *)
(* pattern, in which % stands for any run of characters and _ for any one  *)
(* character; every other character matches itself, ignoring case.         *)
(***************************************************************************)
RECURSIVE ILike(_, _)
ILike(text, pattern) ==
    IF pattern = <<>> THEN text = <<>>
    ELSE IF Head(pattern) = "%"
         THEN ILike(text, Tail(pattern))
              \/ (text # <<>> /\ ILike(Tail(text), pattern))
    ELSE IF Head(pattern) = "_"
         THEN text # <<>> /\ ILike(Tail(text), Tail(pattern))
    ELSE text # <<>>
         /\ Lower(Head(text)) = Lower(Head(pattern))
         /\ ILike(Tail(text), Tail(pattern))

\* column ILIKE pattern, for a nullable column: NULL ILIKE p is NULL, which
\* a WHERE clause treats as false.
ColILike(col, pattern) == col.some /\ ILike(col.v, pattern)

(***************************************************************************)
(* The pagination cursor and its token.                                    *)
(*                                                                         *)
(* A token is the text a client sends.  It is modelled by how base64 and   *)
(* encoding/json read it:                                                  *)
(*   raw  "empty"      the empty string                                    *)
(*        "notbase64"  text that base64.StdEncoding rejects                *)
(*        "base64"     base64 of the document doc                          *)
(*   doc.kind "garbage" bytes that are not JSON,  "null" the JSON null,    *)
(*        "number" a JSON number,  "object" a JSON object                  *)
(*   doc.createdAt, doc.id  the object's members of those names:           *)
(*        t is "absent", "null", "number" or "string"; a createdAt string  *)
(*        is RFC 3339 text of sec seconds and frac microseconds when       *)
(*        valid, and some other text otherwise; an id string is the text   *)
(*        of id n (0: the empty string)                                    *)
(*   doc.extra  whether the object has a member of another name            *)
(***************************************************************************)
ZeroCursor == [CreatedAt |-> 0, ID |-> 0]

NoTimeField == [t |-> "absent", valid |-> FALSE, sec |-> 0, frac |-> 0]
NoIdField == [t |-> "absent", n |-> 0]
NoDoc == [kind |-> "garbage", createdAt |-> NoTimeField, id |-> NoIdField, extra |-> FALSE]
EmptyToken == [raw |-> "empty", doc |-> NoDoc]
NoToken == [some |-> FALSE, v |-> EmptyToken]

\* time.Time.MarshalJSON writes RFC3339Nano: whole seconds and the fraction.
FormatTimeSecondsOnly(t) ==
    [t |-> "string", valid |-> TRUE, sec |-> t \div 1000000, frac |-> 0]

FormatTime(t) ==
    [t |-> "string", valid |-> TRUE, sec |-> t \div 1000000, frac |-> t % 1000000]

\* time.Time.UnmarshalJSON on valid RFC 3339 text.
ParseTime(f) == f.sec * 1000000 + f.frac

\* json.Marshal(MovieCursor): {"createdAt": ..., "id": ...}
MarshalCursor(c) ==
    [kind |-> "object",
     createdAt |-> FormatTime(c.CreatedAt),
     id |-> [t |-> "string", n |-> c.ID],
     extra |-> FALSE]

encodeCursor(c) == [raw |-> "base64", doc |-> MarshalCursor(c)]

\* json.Unmarshal(data, &cursor): whether it reports an error.  null leaves
\* the struct as it is; a member that is absent or null leaves its field as
\* it is; members of other names are ignored.
UnmarshalFails(doc) ==
    \/ doc.kind \in {"garbage", "number"}
    \/ /\ doc.kind = "object"
       /\ \/ doc.createdAt.t = "number"
          \/ doc.createdAt.t = "string" /\ ~doc.createdAt.valid
          \/ doc.id.t = "number"

UnmarshalCursor(doc) ==
    IF doc.kind # "object" THEN ZeroCursor
    ELSE [CreatedAt |-> IF doc.createdAt.t = "string"
                        THEN ParseTime(doc.createdAt) ELSE 0,
          ID |-> IF doc.id.t = "string" THEN doc.id.n ELSE 0]

\* DecodeCursor returns (*MovieCursor, error): err, or nil (no cursor and no
\* error), or the cursor.
DecodeCursor(token) ==
    IF token.raw = "empty"
    THEN [err |-> FALSE, nil |-> TRUE, cursor |-> ZeroCursor]
    ELSE IF token.raw = "notbase64"
    THEN [err |-> TRUE, nil |-> TRUE, cursor |-> ZeroCursor]
    ELSE IF UnmarshalFails(token.doc)
    THEN [err |-> TRUE, nil |-> TRUE, cursor |-> ZeroCursor]
    ELSE [err |-> FALSE, nil |-> FALSE, cursor |-> UnmarshalCursor(token.doc)]

(***************************************************************************)
(* The movies table.                                                       *)
(***************************************************************************)
ZeroBox == [worldwide |-> 0, opening |-> NoInt, currency |-> <<>>, source |-> <<>>,
            lastUpdated |-> 0]
NoBox == [some |-> FALSE, v |-> ZeroBox]

UUIDs == 1 .. MaxMovies

\* The row INSERT INTO movies ... RETURNING yields: id defaults to
\* gen_random_uuid(), created_at to now(), release_year is generated from
\* release_date.
NewRow(id, now, p) ==
    [id |-> id,
     title |-> p.Title,
     release_year |-> p.ReleaseYear,
     genre |-> p.Genre,
     distributor |-> p.Distributor,
     budget |-> p.Budget,
     mpa_rating |-> p.MpaRating,
     box_office |-> p.BoxOffice,
     created_at |-> now]

\* domain.Movie{}
NoMovie ==
    [id |-> 0, title |-> <<>>, release_year |-> 0, genre |-> <<>>, distributor |-> NoStr,
     budget |-> NoInt, mpa_rating |-> NoStr, box_office |-> NoBox, created_at |-> 0]

\* MoviesRepository.GetByID: an id that is no UUID is an error of the
\* statement, returned as it is; a UUID without a row is pgx.ErrNoRows,
\* returned as ErrNotFound.
GetByID(rows, id) ==
    IF id \notin UUIDs THEN [err |-> "error", movie |-> NoMovie]
    ELSE IF \A m \in rows : m.id # id THEN [err |-> "notfound", movie |-> NoMovie]
    ELSE [err |-> "none", movie |-> CHOOSE m \in rows : m.id = id]

BudgetUnchecked(p) == TRUE

\* budget BIGINT CHECK (budget IS NULL OR budget >= 0)
BudgetCheck(p) == ~p.Budget.some \/ p.Budget.v >= 0

\* MoviesRepository.Create: one INSERT, committed on its own.
Create(p) ==
    /\ Cardinality(movies) < MaxMovies
    /\ BudgetCheck(p)
    /\ \E id \in UUIDs \ {r.id : r \in movies} :
          movies' = movies \cup {NewRow(id, clock, p)}

\* Time passes between two transactions.
Tick ==
    /\ clock < MaxClock
    /\ clock' = clock + 1

(***************************************************************************)
(* MoviesRepository.List.                                                  *)
(***************************************************************************)
NoCursor == [some |-> FALSE, v |-> ZeroCursor]

EffectiveLimitNoCap(limit) == IF limit <= 0 THEN 20 ELSE limit

\* filters.Limit after the clamp at the head of List.
EffectiveLimit(limit) ==
    IF limit <= 0 THEN 20 ELSE IF limit > 100 THEN 100 ELSE limit

\* A text filter is applied when it is set and not blank.
Applies(f) == f.some /\ TrimSpace(f.v) # <<>>

\* (title ILIKE '%q%' OR distributor ILIKE '%q%')
QueryClause(m, q) ==
    LET pattern == <<"%">> \o TrimSpace(q) \o <<"%">>
    IN  ILike(m.title, pattern) \/ ColILike(m.distributor, pattern)

\* (created_at, id) < ($c, $i): SQL row comparison, lexicographic.
CursorLessTimeOnly(m, c) == m.created_at < c.CreatedAt

CursorLessOrEqual(m, c) ==
    \/ m.created_at < c.CreatedAt
    \/ m.created_at = c.CreatedAt /\ m.id <= c.ID

CursorLess(m, c) ==
    \/ m.created_at < c.CreatedAt
    \/ m.created_at = c.CreatedAt /\ m.id < c.ID

\* The WHERE clause List builds, without the cursor condition.
FilterWhere(m, f) ==
    /\ Applies(f.Query) => QueryClause(m, f.Query.v)
    /\ f.Year.some => m.release_year = f.Year.v
    /\ Applies(f.Genre) => ILike(m.genre, TrimSpace(f.Genre.v))
    /\ Applies(f.Distributor) => ColILike(m.distributor, TrimSpace(f.Distributor.v))
    /\ f.BudgetLTE.some => (m.budget.some /\ m.budget.v <= f.BudgetLTE.v)
    /\ Applies(f.MpaRating) => ColILike(m.mpa_rating, TrimSpace(f.MpaRating.v))

Where(m, f) ==
    /\ FilterWhere(m, f)
    /\ f.Cursor.some => CursorLess(m, f.Cursor.v)

\* ORDER BY created_at DESC, id DESC
RowBefore(a, b) ==
    \/ a.created_at > b.created_at
    \/ a.created_at = b.created_at /\ a.id > b.id

RECURSIVE OrderDesc(_)
OrderDesc(rows) ==
    IF rows = {} THEN <<>>
    ELSE LET top == CHOOSE r \in rows : \A o \in rows \ {r} : RowBefore(r, o)
         IN  <<top>> \o OrderDesc(rows \ {top})

\* LIMIT n
Take(s, n) == IF Len(s) <= n THEN s ELSE SubSeq(s, 1, n)

\* The cursor's id is bound to a uuid parameter: text that is not a UUID
\* makes the query fail.
QueryFails(f) == f.Cursor.some /\ f.Cursor.v.ID \notin UUIDs

NextCursorWhenNonEmpty(items, limit) ==
    IF Len(items) > 0
    THEN SomeOf(encodeCursor([CreatedAt |-> items[Len(items)].created_at,
                              ID |-> items[Len(items)].id]))
    ELSE NoToken

NextCursor(items, limit) ==
    IF Len(items) = limit
    THEN SomeOf(encodeCursor([CreatedAt |-> items[Len(items)].created_at,
                              ID |-> items[Len(items)].id]))
    ELSE NoToken

NoResult == [err |-> TRUE, Items |-> <<>>, NextCursor |-> NoToken]

List(rows, f) ==
    IF QueryFails(f) THEN NoResult
    ELSE LET limit == EffectiveLimit(f.Limit)
             items == Take(OrderDesc({m \in rows : Where(m, f)}), limit)
         IN  [err |-> FALSE, Items |-> items, NextCursor |-> NextCursor(items, limit)]

(***************************************************************************)
(* Initial values of the parts of the state.                               *)
(***************************************************************************)
NoFilters ==
    [Query |-> NoStr, Year |-> NoInt, Genre |-> NoStr, Distributor |-> NoStr,
     BudgetLTE |-> NoInt, MpaRating |-> NoStr, Limit |-> 0, Cursor |-> NoCursor]

NoTrav ==
    [phase |-> "idle", filters |-> NoFilters, token |-> NoToken, seen |-> <<>>,
     first |-> {}, after |-> {}, before |-> {}, pages |-> 0, last |-> 0]

NoCodecOut == [err |-> FALSE, nil |-> TRUE, cursor |-> ZeroCursor, token |-> EmptyToken]

InitDB ==
    /\ movies = {}
    /\ ratings = {}
    /\ clock = 1

InitList ==
    /\ listReq = NoFilters
    /\ listRes = NoResult

InitCodec ==
    /\ codecIn = [op |-> "none", token |-> EmptyToken, cursor |-> ZeroCursor]
    /\ codecOut = NoCodecOut

InitTrav == trav = NoTrav

InitCalls ==
    /\ calls = <<>>
    /\ hist = {}

(***************************************************************************)
(* A client that pages through a listing: a first List call without a      *)
(* cursor, then one call per returned next-cursor, as handleListMovies and *)
(* buildMovieFilters serve them.  seen records the ids of the items it was *)
(* given, in order.  first, after and before are history: the ids that     *)
(* matched at the first call, and the ids of matching movies created while *)
(* the client held a cursor, by the side of the latest item they sort on;  *)
(* pages counts the List calls made and last is the length of the latest   *)
(* page.                                                                   *)
(***************************************************************************)
Ids(items) == [i \in 1 .. Len(items) |-> items[i].id]

Range(s) == {s[i] : i \in 1 .. Len(s)}

PageParams ==
    {[Title |-> <<"t">>, ReleaseYear |-> 2020, Genre |-> g, Distributor |-> NoStr,
      Budget |-> NoInt, MpaRating |-> NoStr, BoxOffice |-> NoBox] :
        g \in {<<"a">>, <<"b">>}}

PageFilters ==
    {[NoFilters EXCEPT !.Genre = g, !.Limit = l] :
        g \in {NoStr, SomeOf(<<"a">>)}, l \in 0 .. 2}

\* buildMovieFilters: a cursor parameter that is not blank is decoded.
WithCursor(f, token) ==
    LET d == DecodeCursor(token)
    IN  [err |-> d.err,
         filters |-> [f EXCEPT !.Cursor = IF d.nil THEN NoCursor ELSE SomeOf(d.cursor)]]

TravStart(f) ==
    /\ trav.phase = "idle"
    /\ LET r == List(movies, f)
       IN  trav' = [phase |-> IF r.err THEN "failed"
                              ELSE IF r.NextCursor.some THEN "open" ELSE "done",
                    filters |-> f,
                    token |-> r.NextCursor,
                    seen |-> Ids(r.Items),
                    first |-> {m.id : m \in {x \in movies : FilterWhere(x, f)}},
                    after |-> {},
                    before |-> {},
                    pages |-> 1,
                    last |-> Len(r.Items)]
    /\ UNCHANGED <<movies, ratings, clock, listReq, listRes, codecIn, codecOut, calls, hist>>

TravNext ==
    /\ trav.phase = "open"
    /\ \E b \in {WithCursor(trav.filters, trav.token.v)} :
       \E r \in {List(movies, b.filters)} :
           trav' = [trav EXCEPT
                      !.phase = IF b.err \/ r.err THEN "failed"
                                ELSE IF r.NextCursor.some THEN "open" ELSE "done",
                      !.token = r.NextCursor,
                      !.seen = trav.seen \o Ids(r.Items),
                      !.pages = trav.pages + 1,
                      !.last = Len(r.Items)]
    /\ UNCHANGED <<movies, ratings, clock, listReq, listRes, codecIn, codecOut, calls, hist>>

\* Where a new row sorts relative to the item the client saw last, in the
\* listing's order (created_at descending, then id descending).
SortsAfter(row, last) ==
    \/ row.created_at < last.created_at
    \/ row.created_at = last.created_at /\ row.id < last.id

Noted(t, row) ==
    IF t.phase = "open" /\ t.seen # <<>> /\ FilterWhere(row, t.filters)
    THEN IF SortsAfter(row, GetByID(movies, t.seen[Len(t.seen)]).movie)
         THEN [t EXCEPT !.after = @ \cup {row.id}]
         ELSE [t EXCEPT !.before = @ \cup {row.id}]
    ELSE t

PageCreate ==
    /\ \E p \in PageParams : Create(p)
    /\ trav' = Noted(trav, CHOOSE r \in movies' : r \notin movies)
    /\ UNCHANGED <<ratings, clock, listReq, listRes, codecIn, codecOut, calls, hist>>

PageTick ==
    /\ Tick
    /\ UNCHANGED <<movies, ratings, trav, listReq, listRes, codecIn, codecOut, calls, hist>>

PageStart == \E f \in PageFilters : TravStart(f)

InitPage == InitDB /\ InitList /\ InitCodec /\ InitTrav /\ InitCalls

NextPage == PageCreate \/ PageTick \/ PageStart \/ TravNext

SpecPage == InitPage /\ [][NextPage]_vars

(***************************************************************************)
(* C1.  A client that starts without a cursor and follows every returned   *)
(* next-cursor is given each movie that matched at its first call exactly  *)
(* once, in strictly descending (created_at, id) order, whatever movies    *)
(* are created between its calls; a movie created meanwhile that sorts     *)
(* before the client's position is never given, one that sorts after it    *)
(* is given by the time the traversal ends.                                *)
(***************************************************************************)
StrictlyDescending(ids) ==
    \A i \in 1 .. Len(ids) - 1 :
        RowBefore(GetByID(movies, ids[i]).movie, GetByID(movies, ids[i + 1]).movie)

C1_TraversalExactlyOnce ==
    /\ trav.phase # "failed"
    /\ StrictlyDescending(trav.seen)
    /\ \A i, j \in 1 .. Len(trav.seen) : trav.seen[i] = trav.seen[j] => i = j
    /\ \A id \in Range(trav.seen) : FilterWhere(GetByID(movies, id).movie, trav.filters)
    /\ trav.before \cap Range(trav.seen) = {}
    /\ trav.phase = "done" =>
          /\ trav.first \subseteq Range(trav.seen)
          /\ trav.after \subseteq Range(trav.seen)

C1_Witness ==
    /\ trav.phase = "done"
    /\ trav.filters.Limit = 1
    /\ Cardinality(trav.first) >= 2
    /\ Len(trav.seen) >= 3
    /\ trav.after # {}

(***************************************************************************)
(* List calls with filters of the caller's choosing, a cursor included     *)
(* (handleListMovies decodes whatever token the client sends), against a   *)
(* table that grows.                                                       *)
(***************************************************************************)
Cursors ==
    {ZeroCursor} \cup {[CreatedAt |-> t, ID |-> i] : t \in 1 .. MaxClock, i \in UUIDs}

ListFilters ==
    {[NoFilters EXCEPT !.Genre = g, !.Limit = l, !.Cursor = c] :
        g \in {NoStr, SomeOf(<<"a">>)},
        l \in {0, 1, 2, 150},
        c \in {NoCursor} \cup {SomeOf(k) : k \in Cursors}}

\* One call of handleListMovies; its filters and its result are held until
\* the response has been looked at.
ListIdle == listReq = NoFilters /\ listRes = NoResult

ListCall(f) ==
    /\ ListIdle
    /\ listReq' = f
    /\ listRes' = List(movies, f)
    /\ UNCHANGED <<movies, ratings, clock, trav, codecIn, codecOut, calls, hist>>

ListDone ==
    /\ ~ListIdle
    /\ listReq' = NoFilters
    /\ listRes' = NoResult
    /\ UNCHANGED <<movies, ratings, clock, trav, codecIn, codecOut, calls, hist>>

ListCreate ==
    /\ ListIdle
    /\ \E p \in PageParams : Create(p)
    /\ UNCHANGED <<ratings, clock, trav, listReq, listRes, codecIn, codecOut, calls, hist>>

ListTick ==
    /\ ListIdle
    /\ Tick
    /\ UNCHANGED <<movies, ratings, trav, listReq, listRes, codecIn, codecOut, calls, hist>>

ListAny == \E f \in ListFilters : ListCall(f)

NextList == ListCreate \/ ListTick \/ ListAny \/ ListDone

SpecList == InitPage /\ [][NextList]_vars

(***************************************************************************)
(* C5.  A List call with a cursor c returns only rows whose                *)
(* (created_at, id) is strictly below (c.created_at, c.id) in              *)
(* lexicographic order, sorted by created_at descending and then id        *)
(* descending, and it leaves out no such matching row above the page's     *)
(* last item: a row with the cursor's created_at and a smaller id is       *)
(* returned, the cursor's own row is not.                                  *)
(***************************************************************************)
KeyBelow(row, c) ==
    \/ row.created_at < c.CreatedAt
    \/ row.created_at = c.CreatedAt /\ row.id < c.ID

PageAfterCursor(rows, f, r) ==
    LET c == f.Cursor.v
        items == r.Items
        n == Len(items)
    IN  (f.Cursor.some /\ ~r.err) =>
          /\ \A i \in 1 .. n : items[i] \in rows /\ KeyBelow(items[i], c)
          /\ \A i \in 1 .. n - 1 : RowBefore(items[i], items[i + 1])
          /\ \A m \in rows :
                (/\ FilterWhere(m, f)
                 /\ KeyBelow(m, c)
                 /\ (n < EffectiveLimit(f.Limit) \/ RowBefore(m, items[n])))
                => m \in Range(items)

C5_CursorIsStrictTupleBound == PageAfterCursor(movies, listReq, listRes)

C5_Witness ==
    /\ listReq.Cursor.some
    /\ ~listRes.err
    /\ \E m \in movies : m.id = listReq.Cursor.v.ID /\ m.created_at = listReq.Cursor.v.CreatedAt
    /\ \E i \in 1 .. Len(listRes.Items) :
          /\ listRes.Items[i].created_at = listReq.Cursor.v.CreatedAt
          /\ listRes.Items[i].id < listReq.Cursor.v.ID

(***************************************************************************)
(* C6.  List returns a next-cursor exactly when the number of items it     *)
(* returns equals the effective limit, and the returned cursor decodes to  *)
(* the (created_at, id) of the last item of the page.                      *)
(***************************************************************************)
C6_NextCursorIffPageFull ==
    ~listRes.err =>
        LET n == Len(listRes.Items)
            d == DecodeCursor(listRes.NextCursor.v)
        IN  /\ listRes.NextCursor.some <=> n = EffectiveLimit(listReq.Limit)
            /\ listRes.NextCursor.some =>
                  /\ ~d.err /\ ~d.nil
                  /\ d.cursor.CreatedAt = listRes.Items[n].created_at
                  /\ d.cursor.ID = listRes.Items[n].id

C6_Witness ==
    /\ ~listRes.err
    /\ listRes.NextCursor.some
    /\ Len(listRes.Items) = 2
    /\ listReq.Cursor.some
    /\ listRes.Items[2].created_at > 1

(***************************************************************************)
(* The cursor codec on its own: DecodeCursor on a token of the client's    *)
(* choosing, and encodeCursor followed by DecodeCursor on a cursor.        *)
(***************************************************************************)
\* Instants a created_at can hold: microseconds, within and beyond a second.
Instants ==
    (0 .. MaxClock) \cup {1000000 * sec + frac : sec \in 1 .. 2, frac \in 0 .. MaxClock}

TimeFields ==
    {[t |-> k, valid |-> FALSE, sec |-> 0, frac |-> 0] :
        k \in {"absent", "null", "number", "string"}}
    \cup {FormatTime(t) : t \in Instants}

IdFields ==
    {[t |-> k, n |-> 0] : k \in {"absent", "null", "number"}}
    \cup {[t |-> "string", n |-> i] : i \in 0 .. MaxMovies}

Docs ==
    {[NoDoc EXCEPT !.kind = k] : k \in {"garbage", "null", "number"}}
    \cup {[kind |-> "object", createdAt |-> c, id |-> i, extra |-> x] :
            c \in TimeFields, i \in IdFields, x \in BOOLEAN}

Tokens ==
    {EmptyToken, [raw |-> "notbase64", doc |-> NoDoc]}
    \cup {[raw |-> "base64", doc |-> d] : d \in Docs}

CodecCursors == {[CreatedAt |-> t, ID |-> i] : t \in Instants, i \in 0 .. MaxMovies}

InitCodecInputs ==
    /\ codecOut = NoCodecOut
    /\ \/ \E tok \in Tokens :
             codecIn = [op |-> "decode", token |-> tok, cursor |-> ZeroCursor]
       \/ \E c \in CodecCursors :
             codecIn = [op |-> "encode", token |-> EmptyToken, cursor |-> c]

CodecDecode ==
    /\ codecIn.op = "decode"
    /\ LET d == DecodeCursor(codecIn.token)
       IN  codecOut' = [err |-> d.err, nil |-> d.nil, cursor |-> d.cursor,
                        token |-> codecIn.token]
    /\ codecIn' = [codecIn EXCEPT !.op = "decoded"]
    /\ UNCHANGED <<movies, ratings, clock, trav, listReq, listRes, calls, hist>>

CodecRoundTrip ==
    /\ codecIn.op = "encode"
    /\ LET tok == encodeCursor(codecIn.cursor)
           d == DecodeCursor(tok)
       IN  codecOut' = [err |-> d.err, nil |-> d.nil, cursor |-> d.cursor, token |-> tok]
    /\ codecIn' = [codecIn EXCEPT !.op = "roundtrip"]
    /\ UNCHANGED <<movies, ratings, clock, trav, listReq, listRes, calls, hist>>

InitCodecSpec == InitDB /\ InitList /\ InitTrav /\ InitCalls /\ InitCodecInputs

NextCodec == CodecDecode \/ CodecRoundTrip

SpecCodec == InitCodecSpec /\ [][NextCodec]_vars

(***************************************************************************)
(* C7.  Decoding a token that is not a valid encoding of a cursor fails    *)
(* with the invalid-cursor error: it never succeeds, and so never yields   *)
(* an empty or zero-valued cursor.  A valid encoding is taken generously:  *)
(* base64 of a JSON object whose createdAt is an RFC 3339 string and whose *)
(* id is a string.  The empty token, which means "no cursor", is left out. *)
(***************************************************************************)
ValidlyEncoded(token) ==
    /\ token.raw = "base64"
    /\ token.doc.kind = "object"
    /\ token.doc.createdAt.t = "string" /\ token.doc.createdAt.valid
    /\ token.doc.id.t = "string"

C7_InvalidTokenRejected ==
    (/\ codecIn.op = "decoded"
     /\ codecIn.token.raw # "empty"
     /\ ~ValidlyEncoded(codecIn.token))
    => codecOut.err

(***************************************************************************)
(* C8.  For every cursor c, DecodeCursor(encodeCursor(c)) succeeds and     *)
(* returns a cursor equal to c in both fields.                             *)
(***************************************************************************)
C8_CursorRoundTrip ==
    codecIn.op = "roundtrip" =>
        /\ ~codecOut.err
        /\ ~codecOut.nil
        /\ codecOut.cursor.CreatedAt = codecIn.cursor.CreatedAt
        /\ codecOut.cursor.ID = codecIn.cursor.ID

C8_Witness ==
    /\ codecIn.op = "roundtrip"
    /\ codecIn.cursor.CreatedAt > 1000000
    /\ codecIn.cursor.CreatedAt % 1000000 # 0
    /\ codecIn.cursor.ID \in UUIDs
    /\ codecOut.cursor = codecIn.cursor

(***************************************************************************)
(* List as a filter: one call, with filters of the caller's choosing and   *)
(* the default page size, against a table of one or two movies.            *)
(***************************************************************************)
FilterCatalog ==
    {[Title |-> t, ReleaseYear |-> y, Genre |-> g, Distributor |-> d,
      Budget |-> b, MpaRating |-> r, BoxOffice |-> NoBox] :
        t \in {<<"A", "b">>, <<"c">>},
        y \in {2019, 2020},
        g \in {<<"A", "b">>, <<"c">>},
        d \in {NoStr, SomeOf(<<"b", "C">>)},
        b \in {NoInt, SomeOf(5), SomeOf(9)},
        r \in {NoStr, SomeOf(<<"A", "b">>)}}

FilterPairs ==
    {p \in FilterCatalog : p.ReleaseYear = 2020 /\ p.Budget = SomeOf(5) /\ p.MpaRating = NoStr}

FilterTables ==
    {{NewRow(1, 1, p)} : p \in FilterCatalog}
    \cup {{NewRow(1, 1, p), NewRow(2, 1, q)} : p \in FilterPairs, q \in FilterPairs}

FilterInputs ==
    {[Query |-> q, Year |-> y, Genre |-> g, Distributor |-> d, BudgetLTE |-> b,
      MpaRating |-> r, Limit |-> 0, Cursor |-> NoCursor] :
        q \in {NoStr, SomeOf(<<" ">>), SomeOf(<<"b">>), SomeOf(<<" ", "a", "B">>),
               SomeOf(<<"_">>)},
        y \in {NoInt, SomeOf(2020)},
        g \in {NoStr, SomeOf(<<"a">>), SomeOf(<<"a", "B", " ">>)},
        d \in {NoStr, SomeOf(<<"B">>), SomeOf(<<"B", "c">>)},
        b \in {NoInt, SomeOf(5)},
        r \in {NoStr, SomeOf(<<"a", "b">>)}}

InitFilter ==
    /\ movies \in FilterTables
    /\ ratings = {}
    /\ clock = 1
    /\ listReq \in FilterInputs
    /\ listRes = NoResult
    /\ InitCodec /\ InitTrav /\ InitCalls

FilterList ==
    /\ listRes = NoResult
    /\ listRes' = List(movies, listReq)
    /\ UNCHANGED <<movies, ratings, clock, trav, listReq, codecIn, codecOut, calls, hist>>

NextFilter == FilterList

SpecFilter == InitFilter /\ [][NextFilter]_vars

\* sub occurs in text, ignoring case.
ContainsFold(text, sub) ==
    \E i \in 0 .. Len(text) - Len(sub) :
        \A j \in 1 .. Len(sub) : Lower(text[i + j]) = Lower(sub[j])

ColContainsFold(col, sub) == col.some /\ ContainsFold(col.v, sub)

Returned(m) == m \in Range(listRes.Items)

(***************************************************************************)
(* C9.  A List call with a genre, distributor or MPA-rating filter returns *)
(* a movie whenever the filter text occurs, ignoring case, as a substring  *)
(* of that field of the movie (the movie passing the call's other          *)
(* filters).                                                               *)
(***************************************************************************)
C9_TextFiltersMatchSubstrings ==
    ~listRes.err =>
      \A m \in movies :
        /\ (/\ Applies(listReq.Genre)
            /\ ContainsFold(m.genre, TrimSpace(listReq.Genre.v))
            /\ FilterWhere(m, [listReq EXCEPT !.Genre = NoStr]))
           => Returned(m)
        /\ (/\ Applies(listReq.Distributor)
            /\ ColContainsFold(m.distributor, TrimSpace(listReq.Distributor.v))
            /\ FilterWhere(m, [listReq EXCEPT !.Distributor = NoStr]))
           => Returned(m)
        /\ (/\ Applies(listReq.MpaRating)
            /\ ColContainsFold(m.mpa_rating, TrimSpace(listReq.MpaRating.v))
            /\ FilterWhere(m, [listReq EXCEPT !.MpaRating = NoStr]))
           => Returned(m)

(***************************************************************************)
(* C10.  Pagination aside, List returns exactly the movies that satisfy    *)
(* all the supplied filters together: the free-text query when it occurs,  *)
(* ignoring case, in the title or in the distributor, the year filter when *)
(* release_year equals it, the budget filter when budget <= the ceiling.   *)
(***************************************************************************)
QueryOccurs(m, q) ==
    ContainsFold(m.title, TrimSpace(q)) \/ ColContainsFold(m.distributor, TrimSpace(q))

SatisfiesFilters(m, f) ==
    /\ Applies(f.Query) => QueryOccurs(m, f.Query.v)
    /\ f.Year.some => m.release_year = f.Year.v
    /\ f.BudgetLTE.some => (m.budget.some /\ m.budget.v <= f.BudgetLTE.v)
    /\ FilterWhere(m, [f EXCEPT !.Query = NoStr, !.Year = NoInt, !.BudgetLTE = NoInt])

C10_ListReturnsExactlyTheMatches ==
    ~listRes.err => \A m \in movies : Returned(m) <=> SatisfiesFilters(m, listReq)

(***************************************************************************)
(* The ratings table and RatingsRepository.  A rating value is held in     *)
(* tenths (4.5 is 45), the scale of the NUMERIC(2,1) column.  The          *)
(* created_at and updated_at columns of a rating are left out.             *)
(***************************************************************************)
allowedRatingsFromZero == {0, 5, 10, 15, 20, 25, 30, 35, 40, 45, 50}

allowedRatings == {5, 10, 15, 20, 25, 30, 35, 40, 45, 50}

\* rating NUMERIC(2,1) CHECK (rating IN (0.5, ..., 5.0))
RatingCheck(v) == v \in {5, 10, 15, 20, 25, 30, 35, 40, 45, 50}

RatingRow(p) == [movie_id |-> p.MovieID, rater_id |-> p.RaterID, rating |-> p.Value]

\* The row the PRIMARY KEY (movie_id, rater_id) makes the insert conflict with.
Conflict(rows, p) ==
    {x \in rows : x.movie_id = p.MovieID /\ x.rater_id = p.RaterID}

InsertedAlways(rows, p) == TRUE

\* (xmax = 0) AS inserted: true for a row the statement inserted, false for
\* one it updated.
Inserted(rows, p) == Conflict(rows, p) = {}

InsertWithoutConflict(rows, p) == rows \cup {RatingRow(p)}

\* INSERT ... ON CONFLICT (movie_id, rater_id) DO UPDATE SET rating = EXCLUDED.rating
UpsertRows(rows, p) == (rows \ Conflict(rows, p)) \cup {RatingRow(p)}

\* RatingsRepository.Upsert: one statement.  A movie_id that references no
\* movie, or a value the CHECK rejects, is an error of the statement, which
\* is not pgx.ErrNoRows and is returned as it is.
Upsert(movieRows, rows, p) ==
    IF p.MovieID \notin {m.id : m \in movieRows} \/ ~RatingCheck(p.Value)
    THEN [err |-> "error", inserted |-> FALSE, rows |-> rows]
    ELSE [err |-> "none", inserted |-> Inserted(rows, p), rows |-> UpsertRows(rows, p)]

RECURSIVE SumRatings(_)
SumRatings(rows) ==
    IF rows = {} THEN 0
    ELSE LET x == CHOOSE y \in rows : TRUE
         IN  x.rating + SumRatings(rows \ {x})

\* A float4 is held as a multiple of 2^-24, which every float4 in [0.5, 8) is.
Float4Scale == 16777216

\* numeric -> float4 of a value given in tenths, 0 or 0.5 .. 7.9: the
\* nearest float4; its spacing is 2^-24 below 1, 2^-23 below 2, 2^-22
\* below 4 and 2^-21 below 8.
Float4(tenths) ==
    LET ulp == IF tenths < 10 THEN 1 ELSE IF tenths < 20 THEN 2
               ELSE IF tenths < 40 THEN 4 ELSE 8
    IN  ulp * ((2 * tenths * Float4Scale + 10 * ulp) \div (20 * ulp))

AggregateAllMovies(rows, movieID) ==
    [err |-> FALSE,
     Average |-> Float4(IF rows = {} THEN 0
                 ELSE (2 * SumRatings(rows) + Cardinality(rows)) \div (2 * Cardinality(rows))),
     Count |-> Cardinality(rows)]

AggregateTruncating(rows, movieID) ==
    LET rs == {x \in rows : x.movie_id = movieID}
        n == Cardinality(rs)
    IN  [err |-> FALSE,
         Average |-> Float4(IF n = 0 THEN 0 ELSE SumRatings(rs) \div n),
         Count |-> n]

AggregateNoCoalesce(rows, movieID) ==
    LET rs == {x \in rows : x.movie_id = movieID}
        n == Cardinality(rs)
    IN  [err |-> n = 0,
         Average |-> Float4(IF n = 0 THEN 0 ELSE (2 * SumRatings(rs) + n) \div (2 * n)),
         Count |-> IF n = 0 THEN 0 ELSE n]

\* RatingsRepository.Aggregate: COALESCE(ROUND(AVG(rating)::numeric, 1), 0)::float4
\* and COUNT(*) over the movie's rows, in one statement.  AVG of a numeric
\* column is exact to more digits than a tie needs, ROUND rounds a half away
\* from zero, and the rounded value is cast to float4.
Aggregate(rows, movieID) ==
    LET rs == {x \in rows : x.movie_id = movieID}
        n == Cardinality(rs)
    IN  [err |-> FALSE,
         Average |-> Float4(IF n = 0 THEN 0 ELSE (2 * SumRatings(rs) + n) \div (2 * n)),
         Count |-> n]

\* roundToOneDecimal: float32(math.Round(float64(value) * 10) / 10.0).  The
\* product is exact in float64 and math.Round rounds a half away from zero.
roundToOneDecimal(value) ==
    Float4((20 * value + Float4Scale) \div (2 * Float4Scale))

\* MoviesRepository.FindByKeys with the title alone.
FindByKeys(rows, title) == {m \in rows : m.title = title}

GetByTitleFirstMatch(rows, title) ==
    LET found == FindByKeys(rows, title)
    IN  IF found = {}
        THEN [err |-> TRUE, id |-> 0]
        ELSE [err |-> FALSE, id |-> (CHOOSE m \in found : TRUE).id]

\* MoviesRepository.GetByTitle: none or several matches are ErrNotFound.
GetByTitle(rows, title) ==
    LET found == FindByKeys(rows, title)
    IN  IF Cardinality(found) # 1
        THEN [err |-> TRUE, id |-> 0]
        ELSE [err |-> FALSE, id |-> (CHOOSE m \in found : TRUE).id]

(***************************************************************************)
(* handleSubmitRating, run by concurrent request workers.  calls holds the *)
(* requests in order of arrival; a request reads the movie by title in one *)
(* statement and upserts in a second one, and other requests run between   *)
(* the two.  hist is history: one record per committed upsert, with the    *)
(* movie's rating count just before and just after the statement, the      *)
(* value stored for the pair just after it, its number among the commits   *)
(* of its pair, and the requests that were between their two statements    *)
(* when it committed.                                                      *)
(***************************************************************************)
RateTitles == {<<"a">>, <<"b">>}

RateMovie(title) ==
    [Title |-> title, ReleaseYear |-> 2020, Genre |-> <<"a">>, Distributor |-> NoStr,
     Budget |-> NoInt, MpaRating |-> NoStr, BoxOffice |-> NoBox]

RateMovies == {NewRow(1, 1, RateMovie(<<"a">>)), NewRow(2, 1, RateMovie(<<"b">>))}

\* The ratings present before the requests: none, or one on each movie.
RateSeeds ==
    {{},
     {[movie_id |-> 1, rater_id |-> <<"s">>, rating |-> 30],
      [movie_id |-> 2, rater_id |-> <<"s">>, rating |-> 35]}}

SeedCommit(x) ==
    [call |-> 0, movie_id |-> x.movie_id, rater_id |-> x.rater_id, seq |-> 1,
     rating |-> x.rating, inserted |-> TRUE, countBefore |-> 0, countAfter |-> 1,
     stored |-> x.rating, pending |-> {}]

\* The title parameter, the X-Rater-Id header and the body of the requests:
\* body is "json" for a body that decodes, with its rating in value, and
\* otherwise the kind of the decoding error.
RateRequests ==
    {[title |-> <<"a">>, rater |-> <<"u">>, body |-> "json", value |-> 5],
     [title |-> <<"a">>, rater |-> <<"u">>, body |-> "json", value |-> 45],
     [title |-> <<"a">>, rater |-> <<" ", "v">>, body |-> "json", value |-> 45],
     [title |-> <<"a">>, rater |-> <<"w">>, body |-> "json", value |-> 50],
     [title |-> <<"b">>, rater |-> <<"u">>, body |-> "json", value |-> 45],
     [title |-> <<"z">>, rater |-> <<"u">>, body |-> "json", value |-> 45],
     [title |-> <<"a">>, rater |-> <<" ">>, body |-> "json", value |-> 45],
     [title |-> <<"a">>, rater |-> <<"u">>, body |-> "json", value |-> 47]}

HexDigits ==
    {"0", "1", "2", "3", "4", "5", "6", "7", "8", "9",
     "a", "b", "c", "d", "e", "f", "A", "B", "C", "D", "E", "F"}

\* The character a %XX escape stands for, for the escapes of the requests
\* here: %61 is a, %62 is b, %7a is z, %20 is a space, %25 is %.
Unhex(h1, h2) ==
    IF <<h1, h2>> = <<"6", "1">> THEN "a"
    ELSE IF <<h1, h2>> = <<"6", "2">> THEN "b"
    ELSE IF <<h1, h2>> = <<"7", "a">> THEN "z"
    ELSE IF <<h1, h2>> = <<"2", "0">> THEN " "
    ELSE "%"

\* url.PathUnescape: every %XX is replaced by its character; a % that is
\* not followed by two hexadecimal digits is an error.
RECURSIVE PathUnescape(_)
PathUnescape(s) ==
    IF s = <<>> THEN [err |-> FALSE, v |-> <<>>]
    ELSE IF Head(s) = "%"
    THEN IF Len(s) < 3 \/ s[2] \notin HexDigits \/ s[3] \notin HexDigits
         THEN [err |-> TRUE, v |-> <<>>]
         ELSE LET rest == PathUnescape(SubSeq(s, 4, Len(s)))
              IN  IF rest.err THEN rest
                  ELSE [err |-> FALSE, v |-> <<Unhex(s[2], s[3])>> \o rest.v]
    ELSE LET rest == PathUnescape(Tail(s))
         IN  IF rest.err THEN rest ELSE [err |-> FALSE, v |-> <<Head(s)>> \o rest.v]

\* decodeTitleParam: an empty parameter and a bad escape are errors.
decodeTitleParam(raw) ==
    IF raw = <<>> THEN [err |-> TRUE, title |-> <<>>]
    ELSE [err |-> PathUnescape(raw).err, title |-> PathUnescape(raw).v]

\* respondDecodeError: a syntax error, a type error and an empty body are
\* 422, any other decoding error (an unknown member) 400.
DecodeStatus(kind) == IF kind \in {"syntax", "type", "empty"} THEN 422 ELSE 400

InitRate ==
    /\ movies = RateMovies
    /\ ratings \in RateSeeds
    /\ hist = {SeedCommit(x) : x \in ratings}
    /\ calls = <<>>
    /\ clock = 1
    /\ InitList /\ InitCodec /\ InitTrav

NewCall(req, pc, rater, id, status) ==
    [param |-> req.title, title |-> decodeTitleParam(req.title).title,
     header |-> req.rater, rater |-> rater, body |-> req.body, value |-> req.value,
     pc |-> pc, movie_id |-> id, status |-> status]

\* handleSubmitRating up to and including its GetByTitle, for one of the
\* requests reqs, while fewer than max requests have arrived.
RateArriveOf(reqs, max) ==
    /\ Len(calls) < max
    /\ \E req \in reqs :
        LET title == decodeTitleParam(req.title)
            raterID == TrimSpace(req.rater)
            movie == GetByTitle(movies, title.title)
        IN  calls' = Append(calls,
                IF title.err THEN NewCall(req, "done", <<>>, 0, 400)
                ELSE IF raterID = <<>> THEN NewCall(req, "done", raterID, 0, 401)
                ELSE IF movie.err THEN NewCall(req, "done", raterID, 0, 404)
                ELSE NewCall(req, "found", raterID, movie.id, 0))
    /\ UNCHANGED <<movies, ratings, clock, trav, listReq, listRes, codecIn, codecOut, hist>>

RateArrive == RateArriveOf(RateRequests, MaxCalls)

\* The committed upserts of a pair, among the records of the history.
PairCommits(h, movieID, raterID) ==
    {x \in h : "call" \in DOMAIN x /\ x.movie_id = movieID /\ x.rater_id = raterID}

\* The rest of the request: the body is validated, the rating upserted and
\* the response status chosen.
RateUpsert ==
    \E i \in 1 .. Len(calls) :
        /\ calls[i].pc = "found"
        /\ LET c == calls[i]
               p == [MovieID |-> c.movie_id, RaterID |-> c.rater, Value |-> c.value]
               res == Upsert(movies, ratings, p)
               stored == {x.rating : x \in Conflict(res.rows, p)}
           IN  IF c.body # "json"
               THEN /\ calls' = [calls EXCEPT ![i].pc = "done",
                                   ![i].status = DecodeStatus(c.body)]
                    /\ UNCHANGED <<ratings, hist>>
               ELSE IF c.value \notin allowedRatings
               THEN /\ calls' = [calls EXCEPT ![i].pc = "done", ![i].status = 422]
                    /\ UNCHANGED <<ratings, hist>>
               ELSE IF res.err # "none"
               THEN /\ calls' = [calls EXCEPT ![i].pc = "done", ![i].status = 500]
                    /\ UNCHANGED <<ratings, hist>>
               ELSE /\ calls' = [calls EXCEPT ![i].pc = "done",
                                   ![i].status = IF res.inserted THEN 201 ELSE 200]
                    /\ ratings' = res.rows
                    /\ hist' = hist \cup
                        {[call |-> i, movie_id |-> c.movie_id, rater_id |-> c.rater,
                          seq |-> Cardinality(PairCommits(hist, c.movie_id, c.rater)) + 1,
                          rating |-> c.value, inserted |-> res.inserted,
                          countBefore |-> Aggregate(ratings, c.movie_id).Count,
                          countAfter |-> Aggregate(res.rows, c.movie_id).Count,
                          stored |-> stored,
                          pending |-> {j \in 1 .. Len(calls) :
                                         j # i /\ calls[j].pc = "found"}]}
        /\ UNCHANGED <<movies, clock, trav, listReq, listRes, codecIn, codecOut>>

NextRate == RateArrive \/ RateUpsert

SpecRate == InitRate /\ [][NextRate]_vars

MovieIds == {m.id : m \in movies}

RaterIds == {x.rater_id : x \in ratings} \cup {x.rater_id : x \in hist}

\* The latest of the committed upserts of a pair.
LastCommit(h, movieID, raterID) ==
    CHOOSE x \in PairCommits(h, movieID, raterID) :
        \A y \in PairCommits(h, movieID, raterID) : y.seq <= x.seq

\* Request i reached Upsert with a value the handler accepts.
Upserting(i) == calls[i].movie_id # 0 /\ calls[i].value \in allowedRatings

CommitOf(i) == CHOOSE x \in hist : x.call = i

(***************************************************************************)
(* C2.  Under every interleaving of rating requests, each (movie, rater)   *)
(* pair has at most one rating row; a pair with committed upserts has      *)
(* exactly one row, holding the value of the latest committed upsert, and  *)
(* exactly one of the pair's upserts reported inserted = true; a pair      *)
(* without committed upserts has no row.                                   *)
(***************************************************************************)
C2_OneRowPerPairLastValue ==
    \A m \in MovieIds, r \in RaterIds :
        LET rows == {x \in ratings : x.movie_id = m /\ x.rater_id = r}
            cs == PairCommits(hist, m, r)
        IN  /\ Cardinality(rows) <= 1
            /\ cs = {} => rows = {}
            /\ cs # {} =>
                /\ Cardinality(rows) = 1
                /\ \A x \in rows : x.rating = LastCommit(hist, m, r).rating
                /\ Cardinality({x \in cs : x.inserted}) = 1

\* Two requests of one pair with different values were both between their
\* two statements, and both have committed.
C2_Witness ==
    \E x, y \in hist :
        /\ x.call # 0 /\ y.call # 0 /\ x.call # y.call
        /\ x.movie_id = y.movie_id /\ x.rater_id = y.rater_id
        /\ x.rating # y.rating
        /\ y.call \in x.pending
        /\ x.seq = 1 /\ y.seq = 2

(***************************************************************************)
(* C3.  When the requests that upsert a rating for a movie come from       *)
(* distinct raters, none of whom had rated the movie before, and all have  *)
(* returned, each of them reported inserted = true (201) and the movie's   *)
(* Aggregate count is their number plus the number of ratings the movie    *)
(* had before.                                                             *)
(***************************************************************************)
MovieUpserts(m) == {i \in 1 .. Len(calls) : Upserting(i) /\ calls[i].movie_id = m}

MovieSeeds(m) == {x \in hist : x.call = 0 /\ x.movie_id = m}

C3_DistinctRatersAllInserted ==
    \A m \in MovieIds :
        LET cs == MovieUpserts(m)
        IN  (/\ \A i \in cs : calls[i].pc = "done"
             /\ \A i, j \in cs : i # j => calls[i].rater # calls[j].rater
             /\ \A i \in cs : \A x \in MovieSeeds(m) : calls[i].rater # x.rater_id)
            => /\ \A i \in cs :
                    /\ calls[i].status = 201
                    /\ \E x \in hist : x.call = i /\ x.inserted
               /\ Aggregate(ratings, m).Count
                    = Cardinality(cs) + Cardinality(MovieSeeds(m))

\* Three requests from three raters for a movie that had a rating were all
\* between their two statements at once, and all have returned.
C3_Witness ==
    \E m \in MovieIds :
        /\ Cardinality(MovieUpserts(m)) = 3
        /\ MovieSeeds(m) # {}
        /\ \A i \in MovieUpserts(m) : calls[i].status = 201
        /\ \E i \in MovieUpserts(m) : CommitOf(i).pending = MovieUpserts(m) \ {i}
        /\ Aggregate(ratings, m).Count = 4

(***************************************************************************)
(* C4.  The first committed upsert of a (movie, rater) pair reports        *)
(* inserted = true, answers 201 and raises the movie's Aggregate count by  *)
(* one; every later upsert of the pair reports inserted = false, answers   *)
(* 200 and leaves the count as it was; after either, the pair's row holds  *)
(* the upsert's value.                                                     *)
(***************************************************************************)
C4_FirstInsertsLaterOverwrite ==
    \A x \in hist :
        x.call # 0 =>
            /\ x.stored = {x.rating}
            /\ IF x.seq = 1
               THEN /\ x.inserted
                    /\ calls[x.call].status = 201
                    /\ x.countAfter = x.countBefore + 1
               ELSE /\ ~x.inserted
                    /\ calls[x.call].status = 200
                    /\ x.countAfter = x.countBefore

\* A pair's first upsert was followed by one with another value, the movie
\* having other ratings.
C4_Witness ==
    \E x, y \in hist :
        /\ x.call # 0 /\ y.call # 0
        /\ x.movie_id = y.movie_id /\ x.rater_id = y.rater_id
        /\ x.seq = 1 /\ y.seq = 2
        /\ x.rating # y.rating
        /\ calls[x.call].status = 201 /\ calls[y.call].status = 200
        /\ y.countBefore = 2 /\ y.countAfter = 2

(***************************************************************************)
(* buildMovieFilters: the URL query of GET /movies turned into             *)
(* MovieListFilters.  A parameter is text; a missing one is the empty      *)
(* text.                                                                   *)
(***************************************************************************)
MaxRows == 101

DigitVal(c) ==
    CASE c = "0" -> 0 [] c = "1" -> 1 [] c = "2" -> 2 [] c = "3" -> 3 [] c = "4" -> 4
      [] c = "5" -> 5 [] c = "6" -> 6 [] c = "7" -> 7 [] c = "8" -> 8 [] c = "9" -> 9
      [] OTHER -> -1

RECURSIVE DigitsValue(_)
DigitsValue(s) ==
    IF s = <<>> THEN 0
    ELSE 10 * DigitsValue(SubSeq(s, 1, Len(s) - 1)) + DigitVal(s[Len(s)])

\* strconv.Atoi / strconv.ParseInt(s, 10, 64) on text short enough not to
\* overflow: an optional sign, then one or more decimal digits.
Atoi(s) ==
    LET signed == s # <<>> /\ s[1] \in {"+", "-"}
        digits == IF signed THEN Tail(s) ELSE s
    IN  IF digits = <<>> \/ \E i \in 1 .. Len(digits) : DigitVal(digits[i]) < 0
        THEN [err |-> TRUE, n |-> 0]
        ELSE [err |-> FALSE,
              n |-> IF signed /\ s[1] = "-" THEN 0 - DigitsValue(digits)
                    ELSE DigitsValue(digits)]

TextParam(text) == IF TrimSpace(text) = <<>> THEN NoStr ELSE SomeOf(TrimSpace(text))

IntParam(text) ==
    IF TrimSpace(text) = <<>> THEN NoInt ELSE SomeOf(Atoi(TrimSpace(text)).n)

NoQuery ==
    [q |-> <<>>, year |-> <<>>, genre |-> <<>>, distributor |-> <<>>, budget |-> <<>>,
     mpaRating |-> <<>>, limit |-> <<>>, cursor |-> EmptyToken]

buildMovieFilters(query) ==
    LET year == Atoi(TrimSpace(query.year))
        budget == Atoi(TrimSpace(query.budget))
        limit == Atoi(TrimSpace(query.limit))
        cursor == DecodeCursor(query.cursor)
        bad == \/ TrimSpace(query.year) # <<>> /\ year.err
               \/ TrimSpace(query.budget) # <<>> /\ (budget.err \/ budget.n < 0)
               \/ TrimSpace(query.limit) # <<>> /\ limit.err
               \/ cursor.err
    IN  [err |-> bad,
         filters |->
            [Query |-> TextParam(query.q),
             Year |-> IntParam(query.year),
             Genre |-> TextParam(query.genre),
             Distributor |-> TextParam(query.distributor),
             BudgetLTE |-> IntParam(query.budget),
             MpaRating |-> TextParam(query.mpaRating),
             Limit |-> IF TrimSpace(query.limit) = <<>> THEN 0 ELSE limit.n,
             Cursor |-> IF cursor.nil THEN NoCursor ELSE SomeOf(cursor.cursor)]]

(***************************************************************************)
(* handleListMovies on tables of up to MaxRows movies, the limit parameter *)
(* of the caller's choosing.                                               *)
(***************************************************************************)
LimitRow(i) ==
    [id |-> i, title |-> <<"t">>, release_year |-> 2020, genre |-> <<"a">>,
     distributor |-> NoStr, budget |-> NoInt, mpa_rating |-> NoStr,
     box_office |-> NoBox, created_at |-> i]

LimitSizes == {0, 1, 19, 20, 21, 99, 100, MaxRows}

LimitTables == {{LimitRow(i) : i \in 1 .. n} : n \in LimitSizes}

LimitTexts ==
    {<<>>, <<" ">>, <<"0">>, <<"-", "1">>, <<"1">>, <<"2", "0">>, <<"+", "2", "1">>,
     <<"1", "0", "0">>, <<"1", "0", "1">>, <<"1", "5", "0">>, <<" ", "1", "5", "0", " ">>,
     <<"a", "b", "c">>, <<"1", "a">>}

NewListCall(query) == [query |-> query, status |-> 0]

InitLimit ==
    /\ movies \in LimitTables
    /\ ratings = {}
    /\ clock = 1
    /\ calls \in {<<NewListCall([NoQuery EXCEPT !.limit = t])>> : t \in LimitTexts}
    /\ hist = {}
    /\ InitList /\ InitCodec /\ InitTrav

handleListMovies ==
    /\ calls[1].status = 0
    /\ LET built == buildMovieFilters(calls[1].query)
           result == List(movies, built.filters)
       IN  IF built.err
           THEN /\ calls' = [calls EXCEPT ![1].status = 400]
                /\ UNCHANGED <<listReq, listRes>>
           ELSE /\ listReq' = built.filters
                /\ listRes' = result
                /\ calls' = [calls EXCEPT ![1].status = IF result.err THEN 500 ELSE 200]
    /\ UNCHANGED <<movies, ratings, clock, trav, codecIn, codecOut, hist>>

NextLimit == handleListMovies

SpecLimit == InitLimit /\ [][NextLimit]_vars

\* The limit the caller asked for; 0 stands for none.
RequestedLimit(query) ==
    IF TrimSpace(query.limit) = <<>> THEN 0 ELSE Atoi(TrimSpace(query.limit)).n

\* The page size the caller is promised.
PageSize(requested) ==
    IF requested <= 0 THEN 20
    ELSE IF requested \in 1 .. 100 THEN requested
    ELSE 100

(***************************************************************************)
(* C11.  A list request that is answered 200 returns no more items than    *)
(* the effective page size: 20 when the limit is missing or <= 0, the      *)
(* limit itself when it is in 1..100, 100 when it is above 100; the        *)
(* filters the parser hands to List carry the requested limit as it was    *)
(* given.                                                                  *)
(***************************************************************************)
C11_PageSizeClamped ==
    calls[1].status = 200 =>
        /\ Len(listRes.Items) <= PageSize(RequestedLimit(calls[1].query))
        /\ listReq.Limit = RequestedLimit(calls[1].query)

\* A request for 150 items against more than 100 movies: the parser kept
\* 150 and the page has 100 items.
C11_Witness ==
    /\ calls[1].status = 200
    /\ listReq.Limit = 150
    /\ Cardinality(movies) > 100
    /\ Len(listRes.Items) = 100

(***************************************************************************)
(* RatingsRepository.Upsert called with parameters of the caller's         *)
(* choosing, a movie id that references no movie included, and the status  *)
(* handleSubmitRating gives the outcome.                                   *)
(***************************************************************************)
UpsertParams ==
    {[MovieID |-> m, RaterID |-> r, Value |-> v] :
        m \in UUIDs, r \in {<<"u">>, <<"s">>}, v \in {5, 45}}

\* handleSubmitRating after Upsert: ErrNotFound is 404, another error 500.
UpsertStatus(res) ==
    IF res.err = "notfound" THEN 404
    ELSE IF res.err # "none" THEN 500
    ELSE IF res.inserted THEN 201 ELSE 200

InitUpsert ==
    /\ movies = RateMovies
    /\ ratings \in RateSeeds
    /\ hist = {}
    /\ calls = <<>>
    /\ clock = 1
    /\ InitList /\ InitCodec /\ InitTrav

UpsertCall ==
    /\ Len(calls) < MaxCalls
    /\ \E p \in UpsertParams :
        LET res == Upsert(movies, ratings, p)
        IN  /\ ratings' = res.rows
            /\ calls' = Append(calls,
                  [params |-> p, err |-> res.err, inserted |-> res.inserted,
                   status |-> UpsertStatus(res), before |-> ratings, after |-> res.rows])
    /\ UNCHANGED <<movies, clock, trav, listReq, listRes, codecIn, codecOut, hist>>

NextUpsert == UpsertCall

SpecUpsert == InitUpsert /\ [][NextUpsert]_vars

(***************************************************************************)
(* C12.  An Upsert whose movie id references no movie fails with the       *)
(* not-found error, which the handler answers with 404, and leaves the     *)
(* ratings as they were.                                                   *)
(***************************************************************************)
C12_MissingMovieIsNotFound ==
    \A i \in 1 .. Len(calls) :
        calls[i].params.MovieID \notin {m.id : m \in movies} =>
            /\ calls[i].err = "notfound"
            /\ calls[i].status = 404
            /\ calls[i].after = calls[i].before

(***************************************************************************)
(* handleGetRating.  The request reads the movie by title in one statement *)
(* and its aggregate in a second one.  While a request is in progress,     *)
(* hist holds the ratings tables that have existed since it began,         *)
(* numbered in order.                                                      *)
(***************************************************************************)
MaxRaters == 3

NoNumber == [some |-> FALSE, v |-> 0]

NoAggregate == [err |-> FALSE, Average |-> 0, Count |-> 0]

\* ratingAggregateResponse: both members are encoded whatever their value
\* (neither json tag has omitempty).
ratingAggregateResponse(average, count) ==
    [average |-> [some |-> TRUE, v |-> average], count |-> [some |-> TRUE, v |-> count]]

NoResponse == [average |-> NoNumber, count |-> NoNumber]

NewGetCall(title) ==
    [title |-> title, pc |-> "new", movie_id |-> 0, status |-> 0,
     agg |-> NoAggregate, response |-> NoResponse]

\* The one statement of Aggregate reads the table as it is when it runs;
\* earlier is the table as the request's first statement saw it.
AggregateMixingReads(earlier, now, movieID) ==
    [err |-> FALSE, Average |-> Aggregate(earlier, movieID).Average,
     Count |-> Aggregate(now, movieID).Count]

AggregateRead(earlier, now, movieID) == Aggregate(now, movieID)

GetRatingArrive ==
    /\ Len(calls) >= 1 /\ calls[1].pc = "new"
    /\ LET title == decodeTitleParam(calls[1].title)
           movie == GetByTitle(movies, title.title)
       IN  calls' = IF title.err
                    THEN [calls EXCEPT ![1].pc = "done", ![1].status = 400]
                    ELSE IF movie.err
                    THEN [calls EXCEPT ![1].pc = "done", ![1].status = 404]
                    ELSE [calls EXCEPT ![1].pc = "resolved", ![1].movie_id = movie.id]
    /\ hist' = {[n |-> 1, table |-> ratings]}
    /\ UNCHANGED <<movies, ratings, clock, trav, listReq, listRes, codecIn, codecOut>>

GetRatingAggregate ==
    /\ Len(calls) >= 1 /\ calls[1].pc = "resolved"
    /\ LET first == (CHOOSE x \in hist : x.n = 1).table
           agg == AggregateRead(first, ratings, calls[1].movie_id)
       IN  calls' = IF agg.err
                    THEN [calls EXCEPT ![1].pc = "done", ![1].status = 500]
                    ELSE [calls EXCEPT ![1].pc = "done", ![1].status = 200,
                            ![1].agg = agg,
                            ![1].response =
                                ratingAggregateResponse(roundToOneDecimal(agg.Average),
                                                        agg.Count)]
    /\ UNCHANGED <<movies, ratings, clock, trav, listReq, listRes, codecIn, codecOut, hist>>

\* Ratings of movie 1 by up to MaxRaters raters, each of any allowed value,
\* with or without a rating of movie 2.
AggRaterNames == <<"u", "v", "w", "x", "y">>

AggTables ==
    {{[movie_id |-> 1, rater_id |-> <<AggRaterNames[i]>>, rating |-> f[i]] : i \in 1 .. n}
        \cup other :
        n \in 0 .. MaxRaters,
        f \in [1 .. MaxRaters -> allowedRatings],
        other \in {{}, {[movie_id |-> 2, rater_id |-> <<"s">>, rating |-> 35]}}}

InitAgg ==
    /\ movies = RateMovies
    /\ ratings \in AggTables
    /\ calls \in {<<NewGetCall(t)>> : t \in {<<"a">>, <<"b">>, <<"z">>}}
    /\ hist = {}
    /\ clock = 1
    /\ InitList /\ InitCodec /\ InitTrav

NextAgg == GetRatingArrive \/ GetRatingAggregate

SpecAgg == InitAgg /\ [][NextAgg]_vars

MovieRatings(rows, movieID) == {x \in rows : x.movie_id = movieID}

\* The mean of the ratings, in tenths, rounded half up to a whole tenth.
MeanHalfUp(rs) ==
    LET n == Cardinality(rs)
        sum == SumRatings(rs)
    IN  CHOOSE a \in 0 .. 50 : 2 * a * n <= 2 * sum + n /\ 2 * sum + n < 2 * (a + 1) * n

ValuesOf(rs) == {x.rating : x \in rs}

(***************************************************************************)
(* C13.  For a movie with ratings, the average Aggregate returns, and the  *)
(* average the rating endpoint answers after its own rounding, is the      *)
(* float nearest the arithmetic mean rounded half up to one decimal:       *)
(* {4.5, 3.5} gives 4.0, {4.5, 4.0} gives 4.3, {3.5, 4.0} gives 3.8.       *)
(***************************************************************************)
C13_AverageRoundedHalfUp ==
    (calls[1].status = 200 /\ MovieRatings(ratings, calls[1].movie_id) # {}) =>
        LET rs == MovieRatings(ratings, calls[1].movie_id)
            shown == calls[1].response.average.v
        IN  /\ calls[1].agg.Average = Float4(MeanHalfUp(rs))
            /\ shown = Float4(MeanHalfUp(rs))
            /\ (Cardinality(rs) = 2 /\ ValuesOf(rs) = {45, 35}) => shown = Float4(40)
            /\ (Cardinality(rs) = 2 /\ ValuesOf(rs) = {45, 40}) => shown = Float4(43)
            /\ (Cardinality(rs) = 2 /\ ValuesOf(rs) = {35, 40}) => shown = Float4(38)

\* The tie 4.25 was answered as 4.3.
C13_Witness ==
    /\ calls[1].status = 200
    /\ Cardinality(MovieRatings(ratings, calls[1].movie_id)) = 2
    /\ ValuesOf(MovieRatings(ratings, calls[1].movie_id)) = {45, 40}
    /\ calls[1].response.average.v = Float4(43)
    /\ calls[1].response.average.v # Float4(42)

(***************************************************************************)
(* C14.  The rating request for an existing movie without ratings is       *)
(* answered 200 with average 0 and count 0, both present; Aggregate        *)
(* returned exactly (0, 0) and no error.                                   *)
(***************************************************************************)
C14_NoRatingsIsZeroZero ==
    (/\ calls[1].pc = "done"
     /\ GetByTitle(movies, calls[1].title).err = FALSE
     /\ MovieRatings(ratings, GetByTitle(movies, calls[1].title).id) = {})
    => /\ calls[1].status = 200
       /\ calls[1].agg = [err |-> FALSE, Average |-> 0, Count |-> 0]
       /\ calls[1].response.average = [some |-> TRUE, v |-> 0]
       /\ calls[1].response.count = [some |-> TRUE, v |-> 0]

\* The movie asked for has no ratings while the other movie has one.
C14_Witness ==
    /\ calls[1].status = 200
    /\ calls[1].movie_id = 1
    /\ ratings # {}
    /\ MovieRatings(ratings, 1) = {}
    /\ calls[1].response.count = [some |-> TRUE, v |-> 0]

(***************************************************************************)
(* The rating request with rating upserts committed before, during and     *)
(* after it.  calls[1] is the request, the later entries are the upserts.  *)
(***************************************************************************)
SnapParams ==
    {[MovieID |-> m, RaterID |-> r, Value |-> v] :
        m \in {1, 2}, r \in {<<"u">>, <<"v">>}, v \in {5, 45, 50}}

SnapUpsert ==
    /\ Len(calls) >= 1 /\ Len(calls) < 1 + MaxCalls
    /\ \E p \in SnapParams :
        LET res == Upsert(movies, ratings, p)
        IN  /\ ratings' = res.rows
            /\ calls' = Append(calls, [params |-> p, inserted |-> res.inserted])
            /\ hist' = IF calls[1].pc = "resolved"
                       THEN hist \cup {[n |-> Cardinality(hist) + 1, table |-> res.rows]}
                       ELSE hist
    /\ UNCHANGED <<movies, clock, trav, listReq, listRes, codecIn, codecOut>>

InitSnap ==
    /\ movies = RateMovies
    /\ ratings \in RateSeeds
    /\ calls = <<NewGetCall(<<"a">>)>>
    /\ hist = {}
    /\ clock = 1
    /\ InitList /\ InitCodec /\ InitTrav

NextSnap == GetRatingArrive \/ GetRatingAggregate \/ SnapUpsert

SpecSnap == InitSnap /\ [][NextSnap]_vars

\* average and count are those of the movie's ratings in table t.
AggregateOf(agg, t, movieID) ==
    LET rs == MovieRatings(t, movieID)
    IN  /\ agg.Count = Cardinality(rs)
        /\ agg.Average = Float4(IF rs = {} THEN 0 ELSE MeanHalfUp(rs))

(***************************************************************************)
(* C15.  With upserts committing while a rating request is in progress,    *)
(* the average and the count the request's Aggregate returns are both      *)
(* those of one ratings table that existed between the request's start     *)
(* and its return.                                                         *)
(***************************************************************************)
C15_AggregateFromOneState ==
    calls[1].status = 200 =>
        \E x \in hist : AggregateOf(calls[1].agg, x.table, calls[1].movie_id)

\* Two upserts for the movie committed while the request was in progress;
\* the result is that of the latest table and of no earlier one.
C15_Witness ==
    /\ calls[1].status = 200
    /\ Cardinality(hist) >= 3
    /\ \A x \in hist :
          AggregateOf(calls[1].agg, x.table, calls[1].movie_id) <=> x.n = Cardinality(hist)
    /\ \E x, y \in hist :
          /\ Aggregate(x.table, 1).Count # Aggregate(y.table, 1).Count
          /\ Aggregate(x.table, 1).Average # Aggregate(y.table, 1).Average

(***************************************************************************)
(* The box-office provider client.  The upstream's answer is one of: a 200 *)
(* with a payload, a 200 whose body does not decode, a 404, another        *)
(* status, a timeout, a transport error.                                   *)
(***************************************************************************)
NoTime == [some |-> FALSE, v |-> 0]

NoPayload ==
    [Distributor |-> NoStr, Budget |-> NoInt, MpaRating |-> NoStr, Worldwide |-> NoInt,
     OpeningWeekendUS |-> NoInt, Currency |-> NoStr, Source |-> NoStr,
     LastUpdated |-> NoTime]

NoFetchResult ==
    [Distributor |-> NoStr, Budget |-> NoInt, MpaRating |-> NoStr, BoxOffice |-> NoBox]

convertToResultKeepingEmpty(payload, now) ==
    [Distributor |-> payload.Distributor,
     Budget |-> payload.Budget,
     MpaRating |-> payload.MpaRating,
     BoxOffice |-> SomeOf(
        [worldwide |-> IF payload.Worldwide.some THEN payload.Worldwide.v ELSE 0,
         opening |-> payload.OpeningWeekendUS,
         currency |-> IF payload.Currency.some
                      THEN payload.Currency.v ELSE <<"U", "S", "D">>,
         source |-> IF payload.Source.some
                    THEN payload.Source.v
                    ELSE <<"B", "o", "x", "O", "f", "f", "i", "c", "e", "A", "P", "I">>,
         lastUpdated |-> IF payload.LastUpdated.some THEN payload.LastUpdated.v ELSE now])]

\* convertToResult: a missing worldwide revenue is 0, a missing or empty
\* currency "USD", a missing or empty source "BoxOfficeAPI", a missing
\* lastUpdated the time of the conversion.
convertToResult(payload, now) ==
    [Distributor |-> payload.Distributor,
     Budget |-> payload.Budget,
     MpaRating |-> payload.MpaRating,
     BoxOffice |-> SomeOf(
        [worldwide |-> IF payload.Worldwide.some THEN payload.Worldwide.v ELSE 0,
         opening |-> payload.OpeningWeekendUS,
         currency |-> IF payload.Currency.some /\ payload.Currency.v # <<>>
                      THEN payload.Currency.v ELSE <<"U", "S", "D">>,
         source |-> IF payload.Source.some /\ payload.Source.v # <<>>
                    THEN payload.Source.v
                    ELSE <<"B", "o", "x", "O", "f", "f", "i", "c", "e", "A", "P", "I">>,
         lastUpdated |-> IF payload.LastUpdated.some THEN payload.LastUpdated.v ELSE now])]

FetchNotFoundAsEmpty(upstream, now) ==
    IF upstream.kind = "ok"
    THEN [err |-> "none", result |-> convertToResult(upstream.payload, now)]
    ELSE IF upstream.kind = "notfound"
    THEN [err |-> "none", result |-> convertToResult(NoPayload, now)]
    ELSE [err |-> "error", result |-> NoFetchResult]

\* HTTPClient.Fetch: client.Do fails on a timeout or a transport error; a
\* 200 is decoded and converted, a 404 is ErrNotFound, any other status an
\* error.
Fetch(upstream, now) ==
    IF upstream.kind = "ok"
    THEN [err |-> "none", result |-> convertToResult(upstream.payload, now)]
    ELSE IF upstream.kind = "notfound"
    THEN [err |-> "notfound", result |-> NoFetchResult]
    ELSE [err |-> "error", result |-> NoFetchResult]

(***************************************************************************)
(* MoviesRepository.UpdateMetadata.                                        *)
(***************************************************************************)
\* json.Marshal of a BoxOffice: openingWeekendUSA is omitted when nil, the
\* time is written as RFC 3339 text.
marshalBoxOffice(box) ==
    [revenue |-> [worldwide |-> box.worldwide, openingWeekendUSA |-> box.opening],
     currency |-> box.currency,
     source |-> box.source,
     lastUpdated |-> FormatTime(box.lastUpdated)]

\* scanMovie: json.Unmarshal of the stored box_office document.
unmarshalBoxOffice(doc) ==
    [worldwide |-> doc.revenue.worldwide,
     opening |-> doc.revenue.openingWeekendUSA,
     currency |-> doc.currency,
     source |-> doc.source,
     lastUpdated |-> ParseTime(doc.lastUpdated)]

UpdatedRowKeepingBoxOffice(old, distributor, budget, mpaRating, boxOffice) ==
    [old EXCEPT
        !.distributor = IF distributor.some THEN distributor ELSE old.distributor,
        !.budget = IF budget.some THEN budget ELSE old.budget,
        !.mpa_rating = IF mpaRating.some THEN mpaRating ELSE old.mpa_rating,
        !.box_office = IF boxOffice.some
                       THEN SomeOf(unmarshalBoxOffice(marshalBoxOffice(boxOffice.v)))
                       ELSE old.box_office]

\* The row the UPDATE writes: COALESCE keeps a column whose argument is
\* NULL, box_office is set to the argument.
UpdatedRow(old, distributor, budget, mpaRating, boxOffice) ==
    [old EXCEPT
        !.distributor = IF distributor.some THEN distributor ELSE old.distributor,
        !.budget = IF budget.some THEN budget ELSE old.budget,
        !.mpa_rating = IF mpaRating.some THEN mpaRating ELSE old.mpa_rating,
        !.box_office = IF boxOffice.some
                       THEN SomeOf(unmarshalBoxOffice(marshalBoxOffice(boxOffice.v)))
                       ELSE NoBox]

UpdateMetadataIgnoringContext(ctx, rows, id, distributor, budget, mpaRating, boxOffice) ==
    LET target == {m \in rows : m.id = id}
        old == CHOOSE m \in target : TRUE
        new == UpdatedRow(old, distributor, budget, mpaRating, boxOffice)
    IN  IF target = {} THEN [err |-> "notfound", rows |-> rows, movie |-> NoMovie]
        ELSE IF ~BudgetCheck([Budget |-> new.budget])
        THEN [err |-> "error", rows |-> rows, movie |-> NoMovie]
        ELSE [err |-> "none", rows |-> (rows \ target) \cup {new}, movie |-> new]

UpdateMetadataKeepingFailedWrite(ctx, rows, id, distributor, budget, mpaRating, boxOffice) ==
    LET target == {m \in rows : m.id = id}
        old == CHOOSE m \in target : TRUE
        new == UpdatedRow(old, distributor, budget, mpaRating, boxOffice)
    IN  IF ctx = "done" THEN [err |-> "canceled", rows |-> rows, movie |-> NoMovie]
        ELSE IF target = {} THEN [err |-> "notfound", rows |-> rows, movie |-> NoMovie]
        ELSE IF ~BudgetCheck([Budget |-> new.budget])
        THEN [err |-> "error",
              rows |-> (rows \ target) \cup {[new EXCEPT !.budget = old.budget]},
              movie |-> NoMovie]
        ELSE [err |-> "none", rows |-> (rows \ target) \cup {new}, movie |-> new]

\* One UPDATE ... WHERE id = $1 RETURNING.  A context that is already done
\* fails the call before the statement is sent; an id that is no UUID fails
\* the statement with the database's error, returned as it is; no row is
\* ErrNotFound; a budget the CHECK rejects fails the statement, which then
\* writes nothing.
UpdateMetadata(ctx, rows, id, distributor, budget, mpaRating, boxOffice) ==
    LET target == {m \in rows : m.id = id}
        old == CHOOSE m \in target : TRUE
        new == UpdatedRow(old, distributor, budget, mpaRating, boxOffice)
    IN  IF ctx = "done" THEN [err |-> "canceled", rows |-> rows, movie |-> NoMovie]
        ELSE IF id \notin UUIDs THEN [err |-> "error", rows |-> rows, movie |-> NoMovie]
        ELSE IF target = {} THEN [err |-> "notfound", rows |-> rows, movie |-> NoMovie]
        ELSE IF ~BudgetCheck([Budget |-> new.budget])
        THEN [err |-> "error", rows |-> rows, movie |-> NoMovie]
        ELSE [err |-> "none", rows |-> (rows \ target) \cup {new}, movie |-> new]

(***************************************************************************)
(* handleCreateMovie.  calls[1] is the request.  The handler checks the    *)
(* credential, decodes and validates the body, inserts the movie, asks the *)
(* provider, and on a provider success writes the merged metadata; the     *)
(* request's context can end (client gone, shutdown, enrichment deadline)  *)
(* while the provider call is in flight or before the metadata write.      *)
(* hist is history: the provider calls made and the metadata writes tried. *)
(***************************************************************************)
\* cfg.AuthToken: required to be non-empty at startup.
AuthToken == <<"k">>

BearerPrefix == <<"B", "e", "a", "r", "e", "r", " ">>

HasPrefix(s, prefix) ==
    Len(s) >= Len(prefix) /\ SubSeq(s, 1, Len(prefix)) = prefix

TrimPrefix(s, prefix) ==
    IF HasPrefix(s, prefix) THEN SubSeq(s, Len(prefix) + 1, Len(s)) ELSE s

verifyBearerPrefixOnly(header) == HasPrefix(header, BearerPrefix)

verifyBearer(header) ==
    IF header = <<>> THEN FALSE
    ELSE IF ~HasPrefix(header, BearerPrefix) THEN FALSE
    ELSE TrimSpace(TrimPrefix(header, BearerPrefix)) = AuthToken

normalizeStringPtr(ptr) ==
    IF ~ptr.some THEN NoStr
    ELSE IF TrimSpace(ptr.v) = <<>> THEN NoStr
    ELSE SomeOf(TrimSpace(ptr.v))

firstNonNil(primary, fallback) == IF primary.some THEN primary ELSE fallback

GoodBody ==
    [kind |-> "json", Title |-> <<" ", "m">>, Genre |-> <<"g">>,
     ReleaseDate |-> [ok |-> TRUE, year |-> 2020],
     Distributor |-> NoStr, Budget |-> NoInt, MpaRating |-> NoStr]

NoFetch == [err |-> "", result |-> NoFetchResult]

NewCreateCall(header, body) ==
    [header |-> header, body |-> body, pc |-> "new", status |-> 0, ctx |-> "live",
     cancelledAt |-> "", bodyRead |-> FALSE, movie |-> NoMovie, upstream |-> "",
     payload |-> NoPayload, fetch |-> NoFetch,
     writeErr |-> "", response |-> NoMovie]

CreateParamsOf(body) ==
    [Title |-> TrimSpace(body.Title), ReleaseYear |-> body.ReleaseDate.year,
     Genre |-> TrimSpace(body.Genre), Distributor |-> normalizeStringPtr(body.Distributor),
     Budget |-> body.Budget, MpaRating |-> normalizeStringPtr(body.MpaRating),
     BoxOffice |-> NoBox]

Respond(status) == [calls EXCEPT ![1].pc = "done", ![1].status = status]

ValidationFailsBudgetUnchecked(b) ==
    \/ ~b.ReleaseDate.ok
    \/ TrimSpace(b.Title) = <<>> \/ TrimSpace(b.Genre) = <<>>

\* The three checks of a decoded body: the release date parses as
\* YYYY-MM-DD, title and genre are not blank, the budget is not negative.
ValidationFails(b) ==
    \/ ~b.ReleaseDate.ok
    \/ TrimSpace(b.Title) = <<>> \/ TrimSpace(b.Genre) = <<>>
    \/ b.Budget.some /\ b.Budget.v < 0

\* handleCreateMovie from its start to the provider request being sent.
CreateBegin ==
    /\ calls[1].pc = "new"
    /\ LET c == calls[1]
           b == c.body
       IN  IF ~verifyBearer(c.header)
           THEN calls' = Respond(401) /\ UNCHANGED <<movies, hist>>
           ELSE IF b.kind # "json"
           THEN /\ calls' = [Respond(DecodeStatus(b.kind)) EXCEPT ![1].bodyRead = TRUE]
                /\ UNCHANGED <<movies, hist>>
           ELSE IF ValidationFails(b)
           THEN /\ calls' = [Respond(422) EXCEPT ![1].bodyRead = TRUE]
                /\ UNCHANGED <<movies, hist>>
           ELSE \E id \in UUIDs \ {m.id : m \in movies} :
                   LET movie == NewRow(id, clock, CreateParamsOf(b))
                   IN  /\ movies' = movies \cup {movie}
                       /\ calls' = [calls EXCEPT ![1].pc = "fetching",
                                      ![1].bodyRead = TRUE, ![1].movie = movie]
                       /\ hist' = hist \cup {[ev |-> "provider", arg |-> movie.title]}
    /\ UNCHANGED <<ratings, clock, trav, listReq, listRes, codecIn, codecOut>>

UpstreamPayloads ==
    {[NoPayload EXCEPT !.Distributor = d, !.Budget = b, !.MpaRating = r,
        !.Worldwide = x.w, !.Currency = x.c, !.Source = x.s, !.LastUpdated = x.t] :
        d \in {NoStr, SomeOf(<<"P">>)},
        b \in {NoInt, SomeOf(7), SomeOf(0 - 1)},
        r \in {NoStr, SomeOf(<<"R">>)},
        x \in {[w |-> NoInt, c |-> NoStr, s |-> NoStr, t |-> NoTime],
               [w |-> SomeOf(9), c |-> SomeOf(<<"E">>), s |-> SomeOf(<<"S">>),
                t |-> [some |-> TRUE, v |-> 2000005]],
               [w |-> SomeOf(9), c |-> SomeOf(<<>>), s |-> SomeOf(<<>>), t |-> NoTime],
               [w |-> NoInt, c |-> SomeOf(<<"E">>), s |-> SomeOf(<<>>), t |-> NoTime]}}

Upstreams ==
    {[kind |-> "ok", payload |-> p] : p \in UpstreamPayloads}
    \cup {[kind |-> k, payload |-> NoPayload] :
            k \in {"notfound", "status", "malformed", "timeout", "transport"}}

\* What Fetch can come back with once the context is done: the context's
\* error, or an answer that had already arrived.
UpstreamsWhenDone == Upstreams \cup {[kind |-> "canceled", payload |-> NoPayload]}

\* enrichMovieWithBoxOffice: Fetch returns.
ProviderRespond ==
    /\ calls[1].pc = "fetching"
    /\ \E up \in IF calls[1].ctx = "done" THEN UpstreamsWhenDone ELSE Upstreams :
        LET f == Fetch(up, clock)
        IN  calls' = IF f.err # "none"
                     THEN [Respond(201) EXCEPT ![1].upstream = up.kind, ![1].fetch = f,
                                               ![1].response = calls[1].movie]
                     ELSE [calls EXCEPT ![1].pc = "fetched", ![1].upstream = up.kind,
                                        ![1].payload = up.payload, ![1].fetch = f]
    /\ UNCHANGED <<movies, ratings, clock, trav, listReq, listRes, codecIn, codecOut, hist>>

\* What the metadata write can come to.  "up": the statement runs to its
\* end.  "down": the database cannot be reached and nothing is written.
\* "lost": the connection fails after PostgreSQL committed the UPDATE and
\* before the RETURNING row was read.  "cut": the request's context ends at
\* that same point.  In the last two the caller gets an error although the
\* row was written.
WriteOutcomes == {"up", "down", "lost", "cut"}

\* enrichMovieWithBoxOffice after a provider success: the merge and the
\* metadata write.
EnrichWrite ==
    /\ calls[1].pc = "fetched"
    /\ \E outcome \in WriteOutcomes :
        LET c == calls[1]
            result == c.fetch.result
            distributor == firstNonNil(normalizeStringPtr(c.body.Distributor),
                                       result.Distributor)
            budget == firstNonNil(c.body.Budget, result.Budget)
            mpa == firstNonNil(normalizeStringPtr(c.body.MpaRating), result.MpaRating)
            run == UpdateMetadata(c.ctx, movies, c.movie.id, distributor, budget,
                                  mpa, result.BoxOffice)
            res == IF outcome = "down"
                   THEN [err |-> "db", rows |-> movies, movie |-> NoMovie]
                   ELSE IF outcome = "up" \/ run.err # "none" THEN run
                   ELSE [err |-> IF outcome = "cut" THEN "canceled" ELSE "lost",
                         rows |-> run.rows, movie |-> NoMovie]
            cut == outcome = "cut" /\ run.err = "none"
        IN  /\ movies' = res.rows
            /\ calls' = [calls EXCEPT
                            ![1].pc = "written",
                            ![1].ctx = IF cut THEN "done" ELSE c.ctx,
                            ![1].cancelledAt = IF cut THEN "writing" ELSE c.cancelledAt,
                            ![1].writeErr = res.err,
                            ![1].response = IF res.err = "none" THEN res.movie ELSE c.movie]
            /\ hist' = hist \cup {[ev |-> "write", arg |-> c.movie.title]}
    /\ UNCHANGED <<ratings, clock, trav, listReq, listRes, codecIn, codecOut>>

\* handleCreateMovie after enrichMovieWithBoxOffice returned from the
\* metadata write: the 201 response.
CreateRespond ==
    /\ calls[1].pc = "written"
    /\ calls' = Respond(201)
    /\ UNCHANGED <<movies, ratings, clock, trav, listReq, listRes, codecIn, codecOut, hist>>

\* The request's context ends after the movie was inserted.
RequestCancel ==
    /\ calls[1].pc \in {"fetching", "fetched", "written"}
    /\ calls[1].ctx = "live"
    /\ calls' = [calls EXCEPT ![1].ctx = "done", ![1].cancelledAt = calls[1].pc]
    /\ UNCHANGED <<movies, ratings, clock, trav, listReq, listRes, codecIn, codecOut, hist>>

CreateHeaders ==
    {<<>>, BearerPrefix \o AuthToken, BearerPrefix \o AuthToken \o <<" ">>,
     BearerPrefix \o <<" ">> \o AuthToken, BearerPrefix \o <<"x">>,
     BearerPrefix \o AuthToken \o <<"k">>, BearerPrefix, AuthToken,
     <<"b", "e", "a", "r", "e", "r", " ">> \o AuthToken}

CreateBodies ==
    {[GoodBody EXCEPT !.Distributor = d, !.Budget = b, !.MpaRating = r] :
        d \in {NoStr, SomeOf(<<"C", " ">>), SomeOf(<<" ">>)},
        b \in {NoInt, SomeOf(3)},
        r \in {NoStr, SomeOf(<<"G">>)}}
    \cup {[GoodBody EXCEPT !.kind = k] : k \in {"syntax", "type", "empty", "unknown"}}
    \cup {[GoodBody EXCEPT !.ReleaseDate = [ok |-> FALSE, year |-> 0]],
          [GoodBody EXCEPT !.Title = <<" ">>],
          [GoodBody EXCEPT !.Genre = <<>>],
          [GoodBody EXCEPT !.Budget = SomeOf(0 - 1)]}

CreateCalls ==
    {NewCreateCall(h, GoodBody) : h \in CreateHeaders}
    \cup {NewCreateCall(BearerPrefix \o AuthToken, b) : b \in CreateBodies}

InitCreate ==
    /\ movies \in {{}, {NewRow(1, 1, RateMovie(<<"m">>))}}
    /\ ratings = {}
    /\ calls \in {<<c>> : c \in CreateCalls}
    /\ hist = {}
    /\ clock = 1
    /\ InitList /\ InitCodec /\ InitTrav

NextCreate ==
    CreateBegin \/ ProviderRespond \/ EnrichWrite \/ CreateRespond \/ RequestCancel

SpecCreate == InitCreate /\ [][NextCreate]_vars

StoredMovie(id) == CHOOSE m \in movies : m.id = id

IsStored(id) == \E m \in movies : m.id = id

ProviderCalls == {x \in hist : x.ev = "provider"}

MetadataWrites == {x \in hist : x.ev = "write"}

\* The created row with the caller's value in each optional field the
\* caller supplied, the provider's in the others, and the provider's box
\* office.
MergedMovie(c) ==
    [c.movie EXCEPT
        !.distributor = IF normalizeStringPtr(c.body.Distributor).some
                        THEN SomeOf(TrimSpace(c.body.Distributor.v))
                        ELSE c.fetch.result.Distributor,
        !.budget = IF c.body.Budget.some THEN c.body.Budget ELSE c.fetch.result.Budget,
        !.mpa_rating = IF normalizeStringPtr(c.body.MpaRating).some
                       THEN SomeOf(TrimSpace(c.body.MpaRating.v))
                       ELSE c.fetch.result.MpaRating,
        !.box_office = c.fetch.result.BoxOffice]

(***************************************************************************)
(* C16.  A create request whose provider lookup succeeded, whose context   *)
(* did not end before or during the metadata write and whose database      *)
(* stayed available and connected, is answered with, and                   *)
(* leaves stored, the movie that has the caller's distributor, budget and  *)
(* MPA rating where the caller supplied them, the provider's otherwise,    *)
(* and the provider's box office.                                          *)
(***************************************************************************)
C16_ProviderSuccessMerged ==
    (/\ calls[1].pc = "done"
     /\ calls[1].upstream = "ok"
     /\ calls[1].writeErr \notin {"canceled", "db", "lost"})
    => /\ IsStored(calls[1].movie.id)
       /\ StoredMovie(calls[1].movie.id) = MergedMovie(calls[1])
       /\ calls[1].response = MergedMovie(calls[1])

(***************************************************************************)
(* C17.  A create request whose provider lookup answered not-found is      *)
(* answered 201; no metadata write was tried; the stored and returned      *)
(* movie is the created row, without box office and with exactly the       *)
(* optional fields the caller supplied.                                    *)
(***************************************************************************)
C17_ProviderNotFoundCreates ==
    (calls[1].pc = "done" /\ calls[1].upstream = "notfound") =>
        LET c == calls[1]
        IN  /\ c.status = 201
            /\ MetadataWrites = {}
            /\ IsStored(c.movie.id)
            /\ StoredMovie(c.movie.id) = c.movie
            /\ c.response = c.movie
            /\ c.movie.box_office = NoBox
            /\ c.movie.distributor = normalizeStringPtr(c.body.Distributor)
            /\ c.movie.budget = c.body.Budget
            /\ c.movie.mpa_rating = normalizeStringPtr(c.body.MpaRating)

\* The caller supplied a distributor and a budget, the provider said 404.
C17_Witness ==
    /\ calls[1].pc = "done"
    /\ calls[1].upstream = "notfound"
    /\ calls[1].status = 201
    /\ calls[1].movie.distributor = SomeOf(<<"C">>)
    /\ calls[1].movie.budget = SomeOf(3)
    /\ Cardinality(movies) = 2

\* The metadata write was committed and its result did not reach the
\* handler: the connection failed, or the context ended, while the handler
\* waited for the RETURNING row.
WriteResultLost(c) ==
    \/ c.writeErr = "lost"
    \/ c.writeErr = "canceled" /\ c.cancelledAt = "writing"

\* The row the create request leaves stored.
RowAfterEnrichment(c) ==
    IF c.writeErr = "none" \/ WriteResultLost(c) THEN MergedMovie(c) ELSE c.movie

(***************************************************************************)
(* C18 as stated.  A create request whose provider lookup failed other     *)
(* than by not-found, or whose metadata write failed, is answered 201 with *)
(* the movie as created, and the created row is stored unchanged.          *)
(***************************************************************************)
C18_EnrichmentFailureKeepsMovie ==
    (/\ calls[1].pc = "done"
     /\ \/ calls[1].upstream \in {"status", "malformed", "timeout", "transport", "canceled"}
        \/ calls[1].writeErr \notin {"", "none"})
    => /\ calls[1].status = 201
       /\ IsStored(calls[1].movie.id)
       /\ StoredMovie(calls[1].movie.id) = calls[1].movie
       /\ calls[1].response = calls[1].movie

(***************************************************************************)
(* C18.  A create request whose provider lookup failed other than by       *)
(* not-found, or whose metadata write returned an error, is answered 201   *)
(* with the movie as created, and the created movie stays stored.  The     *)
(* stored row is unchanged, except when the write was committed and only   *)
(* its result was lost: then the row holds the merged metadata and the box *)
(* office although the answer shows the movie as created.                  *)
(***************************************************************************)
C18_EnrichmentFailureAnswersCreated ==
    (/\ calls[1].pc = "done"
     /\ \/ calls[1].upstream \in {"status", "malformed", "timeout", "transport", "canceled"}
        \/ calls[1].writeErr \notin {"", "none"})
    => /\ calls[1].status = 201
       /\ IsStored(calls[1].movie.id)
       /\ calls[1].response = calls[1].movie
       /\ StoredMovie(calls[1].movie.id) =
             IF WriteResultLost(calls[1]) THEN MergedMovie(calls[1]) ELSE calls[1].movie

\* The connection failed after the UPDATE was committed: the answer is the
\* movie as created, the stored row has the provider's box office.
C18_Witness ==
    /\ calls[1].pc = "done"
    /\ calls[1].fetch.err = "none"
    /\ calls[1].writeErr = "lost"
    /\ calls[1].status = 201
    /\ calls[1].response = calls[1].movie
    /\ calls[1].fetch.result.BoxOffice.some
    /\ StoredMovie(calls[1].movie.id).box_office.some

(***************************************************************************)
(* C19.  Once the request's context has ended after the insert, the        *)
(* created movie stays stored.  When it ended while the provider call was  *)
(* in flight, or after the call returned and before the metadata write was *)
(* sent, the row stays as created and the request is answered with it: the *)
(* provider's result is not applied.  A context that ends later, when no   *)
(* provider call is in flight, finds the write under way or done: the row  *)
(* is then what the write made it.                                         *)
(***************************************************************************)
C19_CancelledBeforeWriteNotApplied ==
    calls[1].cancelledAt # "" =>
        LET c == calls[1]
        IN  /\ IsStored(c.movie.id)
            /\ c.cancelledAt \in {"fetching", "fetched"} =>
                  /\ StoredMovie(c.movie.id) = c.movie
                  /\ c.pc \in {"written", "done"} => c.response = c.movie
            /\ c.cancelledAt = "writing" =>
                  /\ StoredMovie(c.movie.id) = MergedMovie(c)
                  /\ c.response = c.movie
            /\ c.cancelledAt = "written" =>
                  /\ StoredMovie(c.movie.id) = RowAfterEnrichment(c)
                  /\ c.response = IF c.writeErr = "none" THEN MergedMovie(c) ELSE c.movie

\* The context ended with the provider call in flight, the provider's
\* answer still arrived, and the write was refused.
C19_Witness ==
    /\ calls[1].pc = "done"
    /\ calls[1].cancelledAt = "fetching"
    /\ calls[1].fetch.err = "none"
    /\ calls[1].fetch.result.Budget = SomeOf(7)
    /\ calls[1].writeErr = "canceled"
    /\ StoredMovie(calls[1].movie.id) = calls[1].movie

\* The header is absent, lacks the prefix, or its token is not the
\* configured one.
BadCredential(header) ==
    \/ header = <<>>
    \/ ~HasPrefix(header, BearerPrefix)
    \/ TrimSpace(SubSeq(header, Len(BearerPrefix) + 1, Len(header))) # AuthToken

(***************************************************************************)
(* C20.  A create request with an absent Authorization header, one without *)
(* the "Bearer " prefix, or one whose token is not the configured one, is  *)
(* answered 401 without the body having been read, no movie written and no *)
(* provider call made; "Bearer <token>" followed by whitespace is          *)
(* accepted.                                                               *)
(***************************************************************************)
C20_BadCredentialRejectedFirst ==
    /\ (calls[1].pc # "new" /\ BadCredential(calls[1].header)) =>
          /\ calls[1].pc = "done" /\ calls[1].status = 401
          /\ ~calls[1].bodyRead
          /\ calls[1].movie = NoMovie
          /\ \A m \in movies : m.id = 1 /\ m.title = <<"m">>
          /\ ProviderCalls = {}
    /\ (calls[1].pc # "new" /\ calls[1].header = BearerPrefix \o AuthToken \o <<" ">>) =>
          calls[1].status # 401

\* A wrong token with a valid body was refused.
C20_Witness ==
    /\ calls[1].header = BearerPrefix \o <<"x">>
    /\ calls[1].body = GoodBody
    /\ calls[1].status = 401
    /\ movies # {}

\* Every character of the text is white space.
Blank(text) == \A i \in 1 .. Len(text) : text[i] = " "

\* The body does not decode, its release date is not YYYY-MM-DD, its title
\* or genre is blank, or its budget is negative.
InvalidCreateBody(b) ==
    \/ b.kind # "json"
    \/ ~b.ReleaseDate.ok
    \/ Blank(b.Title) \/ Blank(b.Genre)
    \/ b.Budget.some /\ b.Budget.v < 0

(***************************************************************************)
(* C21.  A create request with the right credential and a body that does   *)
(* not decode, a release date that is not YYYY-MM-DD, a blank title or     *)
(* genre, or a negative budget is answered with a validation error (422;   *)
(* 400 for a body with an unknown member); no movie is inserted, the       *)
(* stored movies and ratings are those of before, and neither the provider *)
(* nor the metadata write was called.                                      *)
(***************************************************************************)
C21_InvalidCreateRejected ==
    (/\ calls[1].pc # "new"
     /\ verifyBearer(calls[1].header)
     /\ InvalidCreateBody(calls[1].body))
    => /\ calls[1].pc = "done"
       /\ calls[1].status = IF calls[1].body.kind = "unknown" THEN 400 ELSE 422
       /\ calls[1].movie = NoMovie
       /\ \A m \in movies : m = NewRow(1, 1, RateMovie(<<"m">>))
       /\ ratings = {}
       /\ ProviderCalls = {}
       /\ MetadataWrites = {}

\* A negative budget was refused while a movie was stored.
C21_Witness ==
    /\ calls[1].pc = "done"
    /\ verifyBearer(calls[1].header)
    /\ calls[1].body.Budget = SomeOf(0 - 1)
    /\ calls[1].status = 422
    /\ movies = {NewRow(1, 1, RateMovie(<<"m">>))}

(***************************************************************************)
(* handleSubmitRating with bodies of every kind: ratings inside and        *)
(* outside the ten steps, and bodies that do not decode.                   *)
(***************************************************************************)
MaxSubmits == 2

SubmitValues == {0 - 5, 0, 5, 33, 45, 50, 55, 60}

SubmitRequests ==
    {[title |-> <<"a">>, rater |-> <<"u">>, body |-> "json", value |-> v] :
        v \in SubmitValues}
    \cup {[title |-> <<"a">>, rater |-> <<"u">>, body |-> k, value |-> 0] :
            k \in {"syntax", "type", "empty", "unknown"}}
    \cup {[title |-> <<"b">>, rater |-> <<"s">>, body |-> "json", value |-> 37]}

SubmitArrive == RateArriveOf(SubmitRequests, MaxSubmits)

NextSubmit == SubmitArrive \/ RateUpsert

SpecSubmit == InitRate /\ [][NextSubmit]_vars

TenSteps == {5 * k : k \in 1 .. 10}

(***************************************************************************)
(* C22.  A rating request that reached the validation of its body with a   *)
(* rating that is not one of 0.5, 1.0, ..., 5.0 is answered 422 and        *)
(* commits no upsert; every stored rating is one of the ten steps.         *)
(***************************************************************************)
C22_InvalidRatingRejected ==
    /\ \A x \in ratings : x.rating \in TenSteps
    /\ \A i \in 1 .. Len(calls) :
          (/\ calls[i].pc = "done"
           /\ calls[i].movie_id # 0
           /\ calls[i].body = "json"
           /\ calls[i].value \notin TenSteps)
          => /\ calls[i].status = 422
             /\ \A x \in hist : x.call # i

\* 4.5 was stored for a pair, then 3.3 for the same pair was refused and
\* 4.5 is still stored.
C22_Witness ==
    /\ Len(calls) = 2
    /\ calls[1].value = 45 /\ calls[1].status = 201
    /\ calls[2].value = 33 /\ calls[2].status = 422
    /\ [movie_id |-> 1, rater_id |-> <<"u">>, rating |-> 45] \in ratings

(***************************************************************************)
(* One request for a movie's ratings, a submission or an aggregate fetch,  *)
(* with every kind of title parameter, rater header and body, on a table   *)
(* where one title is held by two movies.                                  *)
(***************************************************************************)
LookupTables == {RateMovies, RateMovies \cup {NewRow(3, 1, RateMovie(<<"a">>))}}

LookupParams ==
    {<<"a">>, <<"b">>, <<"z">>, <<"A">>, <<>>, <<"%", "6", "2">>, <<"%", "z", "z">>,
     <<"b", "%">>}

LookupRequests ==
    {[title |-> t, rater |-> r, body |-> b.kind, value |-> b.value] :
        t \in LookupParams,
        r \in {<<"u">>, <<>>, <<" ">>, <<" ", "v", " ">>, <<" ", " ">>},
        b \in {[kind |-> "json", value |-> 45], [kind |-> "json", value |-> 0],
               [kind |-> "syntax", value |-> 0]}}

InitLookup ==
    /\ movies \in LookupTables
    /\ ratings \in RateSeeds
    /\ \/ calls = <<>> /\ hist = {SeedCommit(x) : x \in ratings}
       \/ calls \in {<<NewGetCall(t)>> : t \in LookupParams} /\ hist = {}
    /\ clock = 1
    /\ InitList /\ InitCodec /\ InitTrav

LookupArrive == RateArriveOf(LookupRequests, 1)

NextLookup == LookupArrive \/ RateUpsert \/ GetRatingArrive \/ GetRatingAggregate

SpecLookup == InitLookup /\ [][NextLookup]_vars

\* Every % of the parameter is followed by two hexadecimal digits, and the
\* parameter is not empty.
WellFormedParam(raw) ==
    /\ raw # <<>>
    /\ \A k \in 1 .. Len(raw) :
          raw[k] = "%" => /\ k + 2 <= Len(raw)
                          /\ raw[k + 1] \in HexDigits /\ raw[k + 2] \in HexDigits

IsSubmission(c) == "header" \in DOMAIN c

(***************************************************************************)
(* C23 as stated.  A rating submission whose X-Rater-Id header is absent   *)
(* or all white space is answered 401 and commits no rating, whatever the  *)
(* title parameter and the body are; with any other header the answer is   *)
(* not 401, and a rating that is stored is stored under the trimmed        *)
(* header.                                                                 *)
(***************************************************************************)
C23_BlankRaterAlways401 ==
    \A i \in 1 .. Len(calls) :
        IsSubmission(calls[i]) =>
            IF Blank(calls[i].header)
            THEN /\ calls[i].pc = "done" /\ calls[i].status = 401
                 /\ ratings \in RateSeeds
                 /\ \A x \in hist : x.call # i
            ELSE /\ calls[i].status # 401
                 /\ calls[i].status \in {200, 201} =>
                       [movie_id |-> calls[i].movie_id,
                        rater_id |-> TrimSpace(calls[i].header),
                        rating |-> calls[i].value] \in ratings

(***************************************************************************)
(* C23.  A rating submission whose X-Rater-Id header is absent or all      *)
(* white space commits no rating, whatever the title parameter and the     *)
(* body are: it is answered 401 when the title parameter is well formed,   *)
(* whether or not the title names a movie, and 400 when the title          *)
(* parameter is empty or has a bad escape.  With any other header the      *)
(* answer is not 401, and a rating that is stored is stored under the      *)
(* trimmed header.                                                         *)
(***************************************************************************)
C23_BlankRaterUnauthorized ==
    \A i \in 1 .. Len(calls) :
        IsSubmission(calls[i]) =>
            IF Blank(calls[i].header)
            THEN /\ calls[i].pc = "done"
                 /\ calls[i].status =
                       IF WellFormedParam(calls[i].param) THEN 401 ELSE 400
                 /\ ratings \in RateSeeds
                 /\ \A x \in hist : x.call # i
            ELSE /\ calls[i].status # 401
                 /\ calls[i].status \in {200, 201} =>
                       [movie_id |-> calls[i].movie_id,
                        rater_id |-> TrimSpace(calls[i].header),
                        rating |-> calls[i].value] \in ratings

\* A header of two spaces, a title no movie has and a body that does not
\* decode: 401.
C23_Witness ==
    /\ Len(calls) = 1
    /\ IsSubmission(calls[1])
    /\ calls[1].header = <<" ", " ">>
    /\ calls[1].param = <<"z">>
    /\ calls[1].body = "syntax"
    /\ calls[1].status = 401

TitleHolders(title) == {m \in movies : m.title = title}

(***************************************************************************)
(* C24.  A rating submission (with a rater id) and an aggregate fetch, for *)
(* a well-formed title parameter: when exactly one stored movie has the    *)
(* decoded title the lookup yields that movie and the answer is not 404;   *)
(* when none or more than one has it the answer is 404, no rating is       *)
(* committed and no aggregate is computed.                                 *)
(***************************************************************************)
C24_LookupNeedsExactlyOneMovie ==
    \A i \in 1 .. Len(calls) :
        LET c == calls[i]
            holders == TitleHolders(c.title)
        IN  IF IsSubmission(c)
            THEN (WellFormedParam(c.param) /\ ~Blank(c.header)) =>
                    IF Cardinality(holders) = 1
                    THEN c.status # 404 /\ \A m \in holders : c.movie_id = m.id
                    ELSE /\ c.pc = "done" /\ c.status = 404
                         /\ ratings \in RateSeeds
                         /\ \A x \in hist : x.call # i
            ELSE (c.pc # "new" /\ WellFormedParam(c.title)) =>
                    LET held == TitleHolders(PathUnescape(c.title).v)
                    IN  IF Cardinality(held) = 1
                        THEN /\ c.status # 404 /\ \A m \in held : c.movie_id = m.id
                             /\ c.pc = "done" => c.status = 200
                        ELSE /\ c.pc = "done" /\ c.status = 404
                             /\ c.agg = NoAggregate /\ c.response = NoResponse

\* Two movies are titled a; a submission of 4.5 for a by rater u was
\* answered 404 and stored nothing.
C24_Witness ==
    /\ Len(calls) = 1
    /\ IsSubmission(calls[1])
    /\ Cardinality(TitleHolders(<<"a">>)) = 2
    /\ calls[1].param = <<"a">> /\ calls[1].header = <<"u">>
    /\ calls[1].body = "json" /\ calls[1].value = 45
    /\ calls[1].status = 404
    /\ \A x \in ratings : x.rater_id # <<"u">>

(***************************************************************************)
(* C25.  No two stored movies have the same title: a create request for a  *)
(* title that a stored movie already has inserts nothing.                  *)
(***************************************************************************)
C25_TitlesUnique ==
    \A m1, m2 \in movies : m1.title = m2.title => m1 = m2

USD == <<"U", "S", "D">>

BoxOfficeAPI == <<"B", "o", "x", "O", "f", "f", "i", "c", "e", "A", "P", "I">>

\* The stored document has the four keys and the nested worldwide key, and
\* its currency and source are not empty.
CompleteBoxOffice(box) ==
    LET doc == marshalBoxOffice(box)
    IN  /\ {"revenue", "currency", "source", "lastUpdated"} \subseteq DOMAIN doc
        /\ "worldwide" \in DOMAIN doc.revenue
        /\ doc.revenue.worldwide \in Int
        /\ doc.currency # <<>>
        /\ doc.source # <<>>
        /\ ParseTime(doc.lastUpdated) = box.lastUpdated

(***************************************************************************)
(* C26.  Every stored movie has no box office or one with worldwide        *)
(* revenue, a non-empty currency, a non-empty source and a last-updated    *)
(* time; the result converted from a provider payload has worldwide        *)
(* revenue 0 when the payload has none, currency "USD" when the payload's  *)
(* is missing or empty, source "BoxOfficeAPI" when the payload's is        *)
(* missing or empty, and the payload's values otherwise.                   *)
(***************************************************************************)
C26_BoxOfficeComplete ==
    /\ \A m \in movies : m.box_office.some => CompleteBoxOffice(m.box_office.v)
    /\ calls[1].fetch.err = "none" =>
          LET p == calls[1].payload
              box == calls[1].fetch.result.BoxOffice
          IN  /\ box.some
              /\ box.v.worldwide = (IF p.Worldwide.some THEN p.Worldwide.v ELSE 0)
              /\ box.v.currency =
                    (IF ~p.Currency.some \/ p.Currency.v = <<>> THEN USD ELSE p.Currency.v)
              /\ box.v.source =
                    (IF ~p.Source.some \/ p.Source.v = <<>> THEN BoxOfficeAPI
                     ELSE p.Source.v)

\* A payload with a currency, an empty source and no revenue was stored
\* with revenue 0, its currency and the default source.
C26_Witness ==
    /\ calls[1].pc = "done"
    /\ calls[1].writeErr = "none"
    /\ calls[1].payload.Worldwide = NoInt
    /\ calls[1].payload.Source = SomeOf(<<>>)
    /\ \E m \in movies :
          /\ m.id = calls[1].movie.id
          /\ m.box_office.some
          /\ m.box_office.v.worldwide = 0
          /\ m.box_office.v.currency = <<"E">>
          /\ m.box_office.v.source = BoxOfficeAPI

(***************************************************************************)
(* C27.  Every stored movie's budget is absent or at least 0, whether the  *)
(* caller supplied it or the provider did.                                 *)
(***************************************************************************)
C27_BudgetNeverNegative ==
    \A m \in movies : m.budget.some => m.budget.v >= 0

\* The caller gave no budget, the provider gave -1: the metadata write was
\* refused and the movie is stored without a budget.
C27_Witness ==
    /\ calls[1].pc = "done"
    /\ calls[1].body.Budget = NoInt
    /\ calls[1].payload.Budget = SomeOf(0 - 1)
    /\ calls[1].writeErr = "error"
    /\ IsStored(calls[1].movie.id)
    /\ StoredMovie(calls[1].movie.id).budget = NoInt

(***************************************************************************)
(* MoviesRepository.UpdateMetadata called on its own, with arguments of    *)
(* the caller's choosing, on a table with a bare movie and an enriched     *)
(* one; the third id is that of no movie.                                  *)
(***************************************************************************)
MaxUpdates == 2

UpdateBox(worldwide, source) ==
    [worldwide |-> worldwide, opening |-> NoInt, currency |-> <<"U", "S", "D">>,
     source |-> source, lastUpdated |-> 1000000]

UpdateMovies ==
    {NewRow(1, 1, RateMovie(<<"a">>)),
     NewRow(2, 1, [RateMovie(<<"b">>) EXCEPT
                     !.Distributor = SomeOf(<<"D">>), !.Budget = SomeOf(5),
                     !.MpaRating = SomeOf(<<"G">>),
                     !.BoxOffice = SomeOf(UpdateBox(100, <<"o">>))])}

\* An id argument that is not the text of a UUID ("non-existent").
NotUUID == 0

UpdateArgs ==
    {[id |-> id, distributor |-> d, budget |-> b, mpaRating |-> r, boxOffice |-> box] :
        id \in UUIDs \cup {NotUUID},
        d \in {NoStr, SomeOf(<<"P">>)},
        b \in {NoInt, SomeOf(9), SomeOf(0 - 1)},
        r \in {NoStr, SomeOf(<<"R">>)},
        box \in {NoBox, SomeOf(UpdateBox(7, <<"t", "e", "s", "t">>))}}

InitUpdate ==
    /\ movies = UpdateMovies
    /\ ratings = {}
    /\ hist = {}
    /\ calls = <<>>
    /\ clock = 1
    /\ InitList /\ InitCodec /\ InitTrav

UpdateCall ==
    /\ Len(calls) < MaxUpdates
    /\ \E a \in UpdateArgs :
        LET res == UpdateMetadata("live", movies, a.id, a.distributor, a.budget,
                                  a.mpaRating, a.boxOffice)
        IN  /\ movies' = res.rows
            /\ calls' = Append(calls,
                  [args |-> a, err |-> res.err, movie |-> res.movie,
                   before |-> movies, after |-> res.rows])
    /\ UNCHANGED <<ratings, clock, trav, listReq, listRes, codecIn, codecOut, hist>>

NextUpdate == UpdateCall

SpecUpdate == InitUpdate /\ [][NextUpdate]_vars

\* What a call that ran the UPDATE on the row of its id did.
FrameKept(c) ==
    LET a == c.args
        olds == {m \in c.before : m.id = a.id}
        news == {m \in c.after : m.id = a.id}
    IN  /\ c.err = "none"
        /\ Cardinality(news) = 1
        /\ c.after \ news = c.before \ olds
        /\ \A old \in olds : \A new \in news :
              /\ new.distributor =
                    (IF a.distributor.some THEN a.distributor ELSE old.distributor)
              /\ new.budget = (IF a.budget.some THEN a.budget ELSE old.budget)
              /\ new.mpa_rating =
                    (IF a.mpaRating.some THEN a.mpaRating ELSE old.mpa_rating)
              /\ new.box_office = a.boxOffice
              /\ new.id = old.id /\ new.title = old.title
              /\ new.genre = old.genre
              /\ new.release_year = old.release_year
              /\ new.created_at = old.created_at
              /\ c.movie = new

(***************************************************************************)
(* C28 as stated.  UpdateMetadata with the id of a stored movie sets       *)
(* distributor, budget and MPA rating to the argument where it is present  *)
(* and keeps them where it is absent; box office is the argument, absent   *)
(* included; id, title, genre, release year and created_at are as before;  *)
(* with an id that matches no movie it fails with not-found and the table  *)
(* is as before.                                                           *)
(***************************************************************************)
C28_UpdateMetadataAlwaysSets ==
    \A i \in 1 .. Len(calls) :
        IF \A m \in calls[i].before : m.id # calls[i].args.id
        THEN calls[i].err = "notfound" /\ calls[i].after = calls[i].before
        ELSE FrameKept(calls[i])

(***************************************************************************)
(* C28.  UpdateMetadata with the id of a stored movie and a budget         *)
(* argument that is absent or not negative: distributor, budget and MPA    *)
(* rating are the argument where it is present and as before where it is   *)
(* absent; box office is the argument, absent included; id, title, genre,  *)
(* release year and created_at are as before; no other row changes; the    *)
(* row written is the one returned.  With a negative budget argument the   *)
(* call on a stored movie fails with the database's error and every        *)
(* column, box office included, is as before.  With the id of no movie it  *)
(* fails and the table is as before: with not-found when the id is a UUID, *)
(* with the database's error when it is not.                               *)
(***************************************************************************)
C28_UpdateMetadataFrame ==
    \A i \in 1 .. Len(calls) :
        LET c == calls[i]
            a == c.args
        IN  IF \A m \in c.before : m.id # a.id
            THEN /\ c.err = IF a.id \in UUIDs THEN "notfound" ELSE "error"
                 /\ c.after = c.before /\ c.movie = NoMovie
            ELSE IF a.budget.some /\ a.budget.v < 0
            THEN c.err = "error" /\ c.after = c.before /\ c.movie = NoMovie
            ELSE FrameKept(c)

\* The enriched movie was updated with every argument absent: its box
\* office is gone, its distributor, budget and MPA rating are kept.
C28_Witness ==
    /\ Len(calls) >= 1
    /\ calls[1].args.id = 2
    /\ calls[1].args.distributor = NoStr /\ calls[1].args.budget = NoInt
    /\ calls[1].args.mpaRating = NoStr /\ calls[1].args.boxOffice = NoBox
    /\ calls[1].err = "none"
    /\ calls[1].movie.box_office = NoBox
    /\ calls[1].movie.distributor = SomeOf(<<"D">>)
    /\ calls[1].movie.budget = SomeOf(5)
    /\ Len(calls) = 2
    /\ calls[2].args.id = 1
    /\ calls[2].args.budget = SomeOf(0 - 1) /\ calls[2].args.boxOffice.some
    /\ calls[2].err = "error" /\ calls[2].after = calls[2].before

(***************************************************************************)
(* A paging client that keeps following the cursors it is given, over all  *)
(* movies in pages of one or two, while movies are created.                *)
(***************************************************************************)
WalkFilters == {[NoFilters EXCEPT !.Limit = l] : l \in 1 .. 2}

WalkStart == \E f \in WalkFilters : TravStart(f)

WalkCreate ==
    /\ Create(RateMovie(<<"t">>))
    /\ trav' = Noted(trav, CHOOSE r \in movies' : r \notin movies)
    /\ UNCHANGED <<ratings, clock, listReq, listRes, codecIn, codecOut, calls, hist>>

NextWalk == WalkCreate \/ PageTick \/ WalkStart \/ TravNext

SpecWalk == InitPage /\ [][NextWalk]_vars /\ WF_vars(TravNext)

\* The calls a traversal of n movies in pages of limit takes: the full
\* pages, then the page that is not full.
PagesFor(n, limit) == (n \div limit) + 1

\* No movie created during the traversal sorts after the client's cursor.
CreatedOnlyBefore == trav.after = {}

TravBounded ==
    (trav.phase \in {"open", "done"} /\ CreatedOnlyBefore) =>
        LET n == Cardinality(trav.first)
            limit == EffectiveLimit(trav.filters.Limit)
        IN  /\ trav.pages <= PagesFor(n, limit)
            /\ trav.phase = "done" =>
                  /\ trav.pages = PagesFor(n, limit)
                  /\ ~trav.token.some
                  /\ trav.last = n % limit

(***************************************************************************)
(* C29.  A traversal that follows the next-cursors ends with a page that   *)
(* has no next-cursor; when every movie created during it sorts before the *)
(* cursor, it takes one call per full page of the movies that matched at   *)
(* the first call and one more, whose page holds the rest: an empty page   *)
(* without a cursor when the number is a multiple of the limit.            *)
(***************************************************************************)
C29_TraversalEnds ==
    /\ []TravBounded
    /\ (trav.phase = "open") ~> (trav.phase = "done" /\ ~trav.token.some)

\* Two movies matched and were given in two full pages of one; a movie was
\* created meanwhile that sorts before the cursor; the third page was empty
\* and had no cursor.
C29_Witness ==
    /\ trav.phase = "done"
    /\ EffectiveLimit(trav.filters.Limit) = 1
    /\ Cardinality(trav.first) = 2
    /\ trav.before # {}
    /\ trav.after = {}
    /\ trav.pages = 3
    /\ trav.last = 0
    /\ ~trav.token.some

(***************************************************************************)
(* A create request served while other requests arrive: listings at any    *)
(* time, and rating submissions for the created title that arrive after    *)
(* the insert and before the create request is answered.  calls[1] is the  *)
(* create request, the later calls are the rating submissions.             *)
(***************************************************************************)
RaceRequests ==
    {[title |-> <<"m">>, rater |-> <<"u">>, body |-> "json", value |-> 45]}

InitRace ==
    /\ movies = {}
    /\ ratings = {}
    /\ calls = <<NewCreateCall(BearerPrefix \o AuthToken, GoodBody)>>
    /\ hist = {}
    /\ clock = 1
    /\ InitList /\ InitCodec /\ InitTrav

InWindow == calls[1].pc \in {"fetching", "fetched"}

RaceArrive ==
    /\ InWindow
    /\ RateArriveOf(RaceRequests, 1 + MaxSubmits)

RaceList == ListCall(NoFilters)

NextRace ==
    \/ CreateBegin \/ ProviderRespond \/ EnrichWrite \/ CreateRespond \/ RequestCancel
    \/ RaceArrive \/ RateUpsert \/ RaceList \/ ListDone

SpecRace == InitRace /\ [][NextRace]_vars

RatingCommits == {x \in hist : "call" \in DOMAIN x}

\* The insert committed and the create request not yet answered: the stored
\* row is the inserted one, List and GetByTitle return it, and it has no
\* box office.
WindowShowsInsertedRow ==
    InWindow =>
        /\ calls[1].status = 0
        /\ movies = {calls[1].movie}
        /\ ~calls[1].movie.box_office.some
        /\ List(movies, NoFilters).Items = <<calls[1].movie>>
        /\ GetByTitle(movies, TrimSpace(calls[1].body.Title)).id = calls[1].movie.id
        /\ listRes.Items # <<>> => listRes.Items = <<calls[1].movie>>
        /\ \A i \in 2 .. Len(calls) :
              calls[i].pc = "found" => calls[i].movie_id = calls[1].movie.id

\* The metadata write is committed before the create request is answered.
WrittenBeforeAnswer ==
    calls[1].pc = "written" =>
        /\ calls[1].status = 0
        /\ [ev |-> "write", arg |-> calls[1].movie.title] \in hist
        /\ movies = {RowAfterEnrichment(calls[1])}

\* The create request is answered after Fetch returned; a committed
\* metadata write is a second state of the same row, and without one the row
\* stays as inserted.
AnsweredAfterProvider ==
    calls[1].status = 201 =>
        /\ calls[1].upstream \in
              {"ok", "notfound", "status", "malformed", "timeout", "transport", "canceled"}
        /\ [ev |-> "provider", arg |-> calls[1].movie.title] \in hist
        /\ (calls[1].fetch.err = "none") = ([ev |-> "write", arg |-> calls[1].movie.title] \in hist)
        /\ IF calls[1].fetch.err = "none" /\ calls[1].writeErr = "none"
           THEN /\ movies = {calls[1].response}
                /\ calls[1].response.id = calls[1].movie.id
                /\ calls[1].response.box_office.some =
                      calls[1].fetch.result.BoxOffice.some
           ELSE /\ calls[1].response = calls[1].movie
                /\ movies = {RowAfterEnrichment(calls[1])}

\* Every committed rating of the created movie has its row, with the value
\* of the pair's latest commit.
RatingsKept ==
    \A x \in RatingCommits :
        /\ x.movie_id = calls[1].movie.id
        /\ \E m \in movies : m.id = x.movie_id
        /\ \E r \in ratings :
              /\ r.movie_id = x.movie_id /\ r.rater_id = x.rater_id
              /\ r.rating = LastCommit(hist, x.movie_id, x.rater_id).rating

(***************************************************************************)
(* C30.  Creating a movie is two committed writes, the insert and, after   *)
(* the provider answered, the metadata update.  While the create request   *)
(* is between them it has sent no response, and a List or a by-title       *)
(* lookup returns the movie as inserted, without box office; a rating      *)
(* submitted then is stored, and the metadata write leaves the ratings as  *)
(* they are.  The 201 response is sent only once the provider call has     *)
(* returned: with a result, with an error, or by timing out.               *)
(***************************************************************************)
C30_TwoWritesObservable ==
    /\ [](/\ WindowShowsInsertedRow /\ WrittenBeforeAnswer
          /\ AnsweredAfterProvider /\ RatingsKept)
    /\ [][calls[1].pc = "fetched" /\ calls'[1].pc = "written" => ratings' = ratings]_vars

C30_Witness ==
    /\ calls[1].pc = "done" /\ calls[1].status = 201
    /\ calls[1].fetch.err = "none" /\ calls[1].writeErr = "none"
    /\ \E m \in movies : m.id = calls[1].movie.id /\ m.box_office.some
    /\ ~calls[1].movie.box_office.some
    /\ listRes.Items = <<calls[1].movie>>
    /\ \E x \in RatingCommits : x.pending = {} /\ x.inserted
    /\ \E r \in ratings : r.movie_id = calls[1].movie.id /\ r.rating = 45

====
